---------------------------- MODULE Spec2Model ----------------------------
(***************************************************************************)
(* Model of the genetic Minesweeper trainer (campo_minado, agente          *)
(* genetico): the Game board, the rule interpreter, the evaluation play    *)
(* loop and the training loop of main with its parallel evaluation.        *)
(*                                                                         *)
(* The board and the genetic parameters are scaled down so that the state  *)
(* space is finite and small; every scaled parameter keeps the name the    *)
(* source gives it.                                                        *)
(***************************************************************************)
EXTENDS Integers, Sequences, FiniteSets, TLC

(***************************************************************************)
(* Game constants (scaled: the source has a 10 x 10 board with 15 mines).  *)
(***************************************************************************)
GRID_WIDTH == 3
GRID_HEIGHT == 3
NUM_MINES == 2

HIDDEN == "HIDDEN"
REVEALED == "REVEALED"
FLAGGED == "FLAGGED"
CellState == {HIDDEN, REVEALED, FLAGGED}

Pos == (0 .. GRID_WIDTH - 1) \X (0 .. GRID_HEIGHT - 1)

\* a bounds test that leaves out column 0 and row 0
InBoundsFromOne(x, y) == x >= 1 /\ x < GRID_WIDTH /\ y >= 1 /\ y < GRID_HEIGHT

InBounds(x, y) == x >= 0 /\ x < GRID_WIDTH /\ y >= 0 /\ y < GRID_HEIGHT

RECURSIVE Table(_, _)

\* the function f on the set S, as a table of its values
Table(f, S) ==
    LET x == CHOOSE y \in S : TRUE
    IN  IF S = {x} THEN x :> f[x] ELSE (x :> f[x]) @@ Table(f, S \ {x})

\* struct Cell with its default member initialisers
Cell == [isMine |-> FALSE, neighboringMines |-> 0, state |-> HIDDEN]

\* Game::Game(): a GRID_HEIGHT x GRID_WIDTH grid of default cells
NewGame ==
    [gameOver |-> FALSE, grid |-> Table([p \in Pos |-> Cell], Pos), youWin |-> FALSE]

\* number of cells of g in state s
CountState(g, s) == Cardinality({p \in Pos : g.grid[p].state = s})

\* "grid[y][x].state = s" for the cell p = <<x, y>>
setState(g, p, s) == [g EXCEPT !.grid[p].state = s]

\* Game::checkWinCondition: counts every REVEALED cell, mine or not
checkWinCondition(g) ==
    IF CountState(g, REVEALED) = (GRID_WIDTH * GRID_HEIGHT) - NUM_MINES
    THEN [g EXCEPT !.youWin = TRUE]
    ELSE g

\* the mine branch of revealCell, and a variant that forgets the loss
mineRevealedForgets(g) == g

mineRevealed(g) == [g EXCEPT !.gameOver = TRUE]

\* One call frame of Game::revealCell standing in its neighbour loop:
\* <<x, y, k>>, where k = 3*(dy+1) + (dx+1) counts the neighbours visited.
NeighbourX(x, k) == x + (k % 3) - 1
NeighbourY(y, k) == y + (k \div 3) - 1

\* the open neighbours of a flood fill that goes along rows and columns only
OpenNeighboursNoDiagonal(g, x, y, k) ==
    {j \in k .. 8 : /\ j % 2 = 1
                    /\ InBounds(NeighbourX(x, j), NeighbourY(y, j))
                    /\ g.grid[<<NeighbourX(x, j), NeighbourY(y, j)>>].state = HIDDEN}

\* the neighbours k..8 of (x, y) on which a nested revealCell does not
\* return at once (in bounds and HIDDEN)
OpenNeighbours(g, x, y, k) ==
    {j \in k .. 8 : /\ InBounds(NeighbourX(x, j), NeighbourY(y, j))
                    /\ g.grid[<<NeighbourX(x, j), NeighbourY(y, j)>>].state = HIDDEN}

RECURSIVE revealFrames(_, _)

\* The recursion of Game::revealCell run on an explicit stack of call
\* frames: the neighbour loop "for dy, for dx: revealCell(x+dx, y+dy)" of
\* every open call, in the order of the code, with checkWinCondition when a
\* call returns.  Neighbours on which the nested call returns at once are
\* skipped in one step.
revealFrames(g, stack) ==
    IF stack = <<>> THEN g
    ELSE LET n == Len(stack)
             x == stack[n][1]
             y == stack[n][2]
             open == OpenNeighbours(g, x, y, stack[n][3])
         IN  IF open = {}
             THEN revealFrames(checkWinCondition(g), SubSeq(stack, 1, n - 1))
             ELSE LET j == CHOOSE i \in open : \A h \in open : i <= h
                      nx == NeighbourX(x, j)
                      ny == NeighbourY(y, j)
                      rest == [stack EXCEPT ![n] = <<x, y, j + 1>>]
                      g1 == setState(g, <<nx, ny>>, REVEALED)
                  IN  IF g.grid[<<nx, ny>>].isMine
                      THEN revealFrames(mineRevealed(g1), rest)
                      ELSE IF g.grid[<<nx, ny>>].neighboringMines = 0
                           THEN revealFrames(g1, Append(rest, <<nx, ny, 0>>))
                           ELSE revealFrames(checkWinCondition(g1), rest)

\* a revealCell that returns at once on REVEALED cells only: it reveals a
\* FLAGGED cell
revealCellThroughFlag(g, x, y) ==
    IF ~InBounds(x, y) THEN g
    ELSE IF g.grid[<<x, y>>].state = REVEALED THEN g
    ELSE LET g1 == setState(g, <<x, y>>, REVEALED)
         IN  IF g.grid[<<x, y>>].isMine
             THEN mineRevealed(g1)
             ELSE IF g.grid[<<x, y>>].neighboringMines = 0
                  THEN revealFrames(g1, <<<<x, y, 0>>>>)
                  ELSE checkWinCondition(g1)

\* Game::revealCell: recursive flood fill, win check after every safe cell
revealCell(g, x, y) ==
    IF ~InBounds(x, y) THEN g
    ELSE IF g.grid[<<x, y>>].state # HIDDEN THEN g
    ELSE LET g1 == setState(g, <<x, y>>, REVEALED)
         IN  IF g.grid[<<x, y>>].isMine
             THEN mineRevealed(g1)
             ELSE IF g.grid[<<x, y>>].neighboringMines = 0
                  THEN revealFrames(g1, <<<<x, y, 0>>>>)
                  ELSE checkWinCondition(g1)

\* a placeFlag that takes the flag off a FLAGGED cell
placeFlagToggles(g, x, y) ==
    IF ~InBounds(x, y) THEN g
    ELSE IF g.grid[<<x, y>>].state = REVEALED THEN g
    ELSE setState(g, <<x, y>>, IF g.grid[<<x, y>>].state = HIDDEN THEN FLAGGED ELSE HIDDEN)

\* Game::placeFlag
placeFlag(g, x, y) ==
    IF ~InBounds(x, y) THEN g
    ELSE IF g.grid[<<x, y>>].state # HIDDEN THEN g
    ELSE setState(g, <<x, y>>, FLAGGED)

\* a neighbour count over the four neighbours of the row and the column
NeighbourMinesNoDiagonal(mineGrid, x, y) ==
    Cardinality({d \in {<<0 - 1, 0>>, <<1, 0>>, <<0, 0 - 1>>, <<0, 1>>} :
                    /\ InBounds(x + d[1], y + d[2])
                    /\ mineGrid[<<x + d[1], y + d[2]>>]})

\* the neighbour count computed by initializeGridFixed for a safe cell
NeighbourMines(mineGrid, x, y) ==
    Cardinality({d \in (-1 .. 1) \X (-1 .. 1) :
                    /\ InBounds(x + d[1], y + d[2])
                    /\ mineGrid[<<x + d[1], y + d[2]>>]})

\* Game::initializeGridFixed
initializeGridFixed(startX, startY, mineGrid) ==
    LET g0 == [gameOver |-> FALSE,
               grid |-> Table([p \in Pos |->
                                 [isMine |-> mineGrid[p],
                                  neighboringMines |->
                                      IF mineGrid[p] THEN 0
                                      ELSE NeighbourMines(mineGrid, p[1], p[2]),
                                  state |-> HIDDEN]], Pos),
               youWin |-> FALSE]
    IN  IF startX >= 0 /\ startY >= 0 THEN revealCell(g0, startX, startY) ELSE g0

\* every bitmap with exactly NUM_MINES mines
Bitmaps ==
    {[p \in Pos |-> p \in S] : S \in {T \in SUBSET Pos : Cardinality(T) = NUM_MINES}}

\* isInSafeZone of generateFixedGames
isInSafeZone(x, y, startX, startY) ==
    x >= startX - 1 /\ x <= startX + 1 /\ y >= startY - 1 /\ y <= startY + 1

\* struct FixedGame; the scenarios generateFixedGames can write: a start cell
\* drawn by dis_pos and NUM_MINES mines placed outside its safe zone
GeneratedGames ==
    {sc \in [startX : 0 .. GRID_WIDTH - 1, startY : 0 .. GRID_HEIGHT - 1,
             mineGrid : Bitmaps] :
        \A p \in Pos : sc.mineGrid[p] => ~isInSafeZone(p[1], p[2], sc.startX, sc.startY)}

\* bitmap with its mines on the cells of S
MineGridOf(S) == [p \in Pos |-> p \in S]

\* the scenarios played in SpecGame and SpecPlay: three generated scenarios
PlayGames ==
    << [startX |-> 0, startY |-> 0, mineGrid |-> MineGridOf({<<2, 0>>, <<0, 2>>})],
       [startX |-> 0, startY |-> 0, mineGrid |-> MineGridOf({<<2, 1>>, <<2, 2>>})],
       [startX |-> 1, startY |-> 0, mineGrid |-> MineGridOf({<<0, 2>>, <<2, 2>>})] >>

\* fixedGamesGlobal: the scenario bank read by loadFixedGames for the
\* training, three generated scenarios
fixedGamesGlobal ==
    << [startX |-> 0, startY |-> 0, mineGrid |-> MineGridOf({<<2, 1>>, <<2, 2>>})],
       [startX |-> 1, startY |-> 0, mineGrid |-> MineGridOf({<<0, 2>>, <<2, 2>>})],
       [startX |-> 0, startY |-> 0, mineGrid |-> MineGridOf({<<1, 2>>, <<2, 2>>})] >>

(***************************************************************************)
(* Rules and individuals.                                                  *)
(***************************************************************************)
ACTION_REVEAL_HIDDEN == "ACTION_REVEAL_HIDDEN"
ACTION_PLACE_FLAG == "ACTION_PLACE_FLAG"

\* genome length (scaled: the source has 150 rules per individual)
NUM_RULES == 2

\* the values the distributions of createRandomIndividual and mutate yield
\* (scaled: dis_num, dis_hidden and dis_flagged draw from 0..8 and
\* dis_priority from 1..10 in the source)
dis_num == 0 .. 2
dis_hidden == 1 .. 2
dis_flagged == 0 .. 1
dis_scope == 1 .. 2
dis_priority == 1 .. 2

\* struct Rule
Rules ==
    [numberCondition : dis_num, hiddenCondition : dis_hidden,
     flaggedCondition : dis_flagged, nearEdge : BOOLEAN,
     hasSpecificPattern : BOOLEAN, extendedScope : dis_scope,
     priority : dis_priority, action : {ACTION_REVEAL_HIDDEN, ACTION_PLACE_FLAG}]

\* the elements of a finite set of integers in increasing order
SortedSeq(S) ==
    [i \in 1 .. Cardinality(S) |->
        CHOOSE v \in S : Cardinality({u \in S : u < v}) = i - 1]

\* row-major index of a cell and the cell of an index
CellIndex(x, y) == y * GRID_WIDTH + x
CellAt(c) == <<c % GRID_WIDTH, c \div GRID_WIDTH>>

\* a window that keeps to the row of (x, y)
WindowRowOnly(x, y, scope) ==
    {p \in Pos : p[1] >= x - scope /\ p[1] <= x + scope /\ p[2] = y}

\* the cells of the (2*scope+1)^2 window around (x, y) that are on the board
Window(x, y, scope) ==
    {p \in Pos : /\ p[1] >= x - scope /\ p[1] <= x + scope
                 /\ p[2] >= y - scope /\ p[2] <= y + scope}

\* the cells of the window that are not REVEALED, the FLAGGED ones too
hiddenCellsAndFlagged(g, x, y, scope) ==
    SortedSeq({CellIndex(p[1], p[2]) : p \in {q \in Window(x, y, scope) :
                                                g.grid[q].state # REVEALED}})

\* hiddenCells of applyRules: the HIDDEN cells of the window in the order of
\* the loops "for dy, for dx", as row-major indices
hiddenCells(g, x, y, scope) ==
    SortedSeq({CellIndex(p[1], p[2]) : p \in {q \in Window(x, y, scope) :
                                                g.grid[q].state = HIDDEN}})

flagsCount(g, x, y, scope) ==
    Cardinality({q \in Window(x, y, scope) : g.grid[q].state = FLAGGED})

RECURSIVE revealHiddenCells(_, _, _)

\* "for (auto &c : hiddenCells) if (!gameOver && !youWin) revealCell(c)"
revealHiddenCells(g, cells, i) ==
    IF i > Len(cells) THEN g
    ELSE IF g.gameOver \/ g.youWin THEN g
    ELSE revealHiddenCells(revealCell(g, CellAt(cells[i])[1], CellAt(cells[i])[2]),
                           cells, i + 1)

\* a match in which a Flag rule asks for as many flags as the number
RuleFiresFlagAtNumber(rule, g, x, y) ==
    LET hidden == hiddenCells(g, x, y, rule.extendedScope)
        flags == flagsCount(g, x, y, rule.extendedScope)
    IN  /\ g.grid[<<x, y>>].state = REVEALED
        /\ g.grid[<<x, y>>].neighboringMines = rule.numberCondition
        /\ Len(hidden) = rule.hiddenCondition
        /\ flags = rule.flaggedCondition
        /\ IF rule.action = ACTION_REVEAL_HIDDEN
           THEN flags = rule.numberCondition /\ Len(hidden) > 0
           ELSE rule.numberCondition = flags /\ Len(hidden) = 1

\* does the rule match the revealed cell (x, y): the conditions of applyRules
\* down to the action's own condition
RuleFires(rule, g, x, y) ==
    LET hidden == hiddenCells(g, x, y, rule.extendedScope)
        flags == flagsCount(g, x, y, rule.extendedScope)
        isNearEdge == (x <= 1 \/ x >= GRID_WIDTH - 2 \/ y <= 1 \/ y >= GRID_HEIGHT - 2)
    IN  /\ g.grid[<<x, y>>].state = REVEALED
        /\ g.grid[<<x, y>>].neighboringMines = rule.numberCondition
        /\ Len(hidden) = rule.hiddenCondition
        /\ flags = rule.flaggedCondition
        /\ (rule.nearEdge => isNearEdge)
        /\ (rule.hasSpecificPattern => g.grid[<<x, y>>].neighboringMines = 2)
        /\ IF rule.action = ACTION_REVEAL_HIDDEN
           THEN flags = rule.numberCondition /\ Len(hidden) > 0
           ELSE (rule.numberCondition - 1) = flags /\ Len(hidden) = 1

\* the action of a rule that fires on (x, y); the board is not terminal here
RuleAct(rule, g, x, y) ==
    LET hidden == hiddenCells(g, x, y, rule.extendedScope)
    IN  IF rule.action = ACTION_REVEAL_HIDDEN
        THEN revealHiddenCells(g, hidden, 1)
        ELSE placeFlag(g, CellAt(hidden[1])[1], CellAt(hidden[1])[2])

RECURSIVE applyRulesFrom(_, _, _, _, _)

\* the loops of applyRules from rule r (of sortedRules) and cell c on, with
\* the board g and the flag changed; the result is <<board, changed>>
applyRulesFrom(sortedRules, r, c, g, chg) ==
    IF r > Len(sortedRules) THEN <<g, chg>>
    ELSE IF g.gameOver \/ g.youWin THEN <<g, chg>>
    ELSE IF c = GRID_WIDTH * GRID_HEIGHT
         THEN applyRulesFrom(sortedRules, r + 1, 0, g, chg)
    ELSE IF RuleFires(sortedRules[r], g, CellAt(c)[1], CellAt(c)[2])
         THEN applyRulesFrom(sortedRules, r, c + 1,
                             RuleAct(sortedRules[r], g, CellAt(c)[1], CellAt(c)[2]), TRUE)
         ELSE applyRulesFrom(sortedRules, r, c + 1, g, chg)

\* the results std::sort may give for "a.priority > b.priority": every
\* arrangement of the rules in descending priority (std::sort is not stable,
\* the order of rules of equal priority is unspecified)
SortedByPriority(rules) ==
    LET n == Len(rules)
        perms == {f \in [1 .. n -> 1 .. n] : \A i, j \in 1 .. n : i # j => f[i] # f[j]}
    IN  {[i \in 1 .. n |-> rules[f[i]]] :
            f \in {h \in perms : \A i \in 1 .. n - 1 :
                                    rules[h[i]].priority >= rules[h[i + 1]].priority}}

\* applyRules, for one result of the sort: <<board, changed>>
applyRules(sortedRules, g) == applyRulesFrom(sortedRules, 1, 0, g, FALSE)

\* the board initializeGridFixed makes of scenario i of the bank
BankBoard ==
    [i \in DOMAIN fixedGamesGlobal |->
        initializeGridFixed(fixedGamesGlobal[i].startX, fixedGamesGlobal[i].startY,
                            fixedGamesGlobal[i].mineGrid)]

\* the board initializeGridFixed makes of scenario i of PlayGames
PlayBoard ==
    [i \in DOMAIN PlayGames |->
        initializeGridFixed(PlayGames[i].startX, PlayGames[i].startY,
                            PlayGames[i].mineGrid)]

\* arguments of a call: every cell, and one point beyond each border
CallPoints ==
    Pos \cup {<<-1, 0>>, <<GRID_WIDTH, 0>>, <<0, -1>>, <<0, GRID_HEIGHT>>}

\* number of calls of initializeGridFixed explored on one Game object
MaxInits == 2

\* revealRandomCell drawing its index among all the cells, not the HIDDEN ones
revealRandomCellAnyCell(g) == {revealCell(g, p[1], p[2]) : p \in Pos}

\* revealRandomCell: the boards it may leave, one for every index that
\* dis(gen_global) may draw among the HIDDEN cells; no cell is revealed when
\* none is HIDDEN
revealRandomCell(g) ==
    LET hidden == {p \in Pos : g.grid[p].state = HIDDEN}
    IN  IF hidden = {} THEN {g}
        ELSE {revealCell(g, p[1], p[2]) : p \in hidden}

\* a loop body that counts as actions the cells a pass revealed or flagged
PlayLoopBodyCountsCells(rules, g, actions) ==
    UNION {LET res == applyRules(sortedRules, g)
           IN  IF res[2]
               THEN {<<res[1],
                       actions + CountState(g, HIDDEN) - CountState(res[1], HIDDEN),
                       TRUE>>}
               ELSE IF ~res[1].gameOver /\ ~res[1].youWin
                    THEN {<<h, actions + 1, TRUE>> : h \in revealRandomCell(res[1])}
                    ELSE {<<res[1], actions, FALSE>>}
           : sortedRules \in SortedByPriority(rules)}

\* The body of the loop "while (!gameOver && !youWin && changed)" of
\* evaluateIndividual on the local state <<game, actionsTaken>>: the set of
\* its possible results <<game, actionsTaken, changed>>.
PlayLoopBody(rules, g, actions) ==
    UNION {LET res == applyRules(sortedRules, g)
           IN  IF res[2] THEN {<<res[1], actions + 1, TRUE>>}
               ELSE IF ~res[1].gameOver /\ ~res[1].youWin
                    THEN {<<h, actions + 1, TRUE>> : h \in revealRandomCell(res[1])}
                    ELSE {<<res[1], actions, FALSE>>}
           : sortedRules \in SortedByPriority(rules)}

\* The genomes played in SpecPlay: NUM_RULES rules, or none (an Individual
\* as default-constructed).  Every cell of a board this small is near an
\* edge, so the rules are drawn without the edge condition, which no cell
\* can fail.
PlayRules == {r \in Rules : ~r.nearEdge}
PlayGenomes == [1 .. NUM_RULES -> PlayRules] \cup {<<>>}

(***************************************************************************)
(* Fitness evaluation.                                                     *)
(***************************************************************************)
RECURSIVE PlayResults(_, _, _, _)

\* The play loop of evaluateIndividual run to its end from the local state
\* <<game, actionsTaken, changed>>: the final <<game, actionsTaken>> it can
\* reach, over the indices revealRandomCell may draw.
PlayResults(rules, g, actions, chg) ==
    IF g.gameOver \/ g.youWin \/ ~chg THEN {<<g, actions>>}
    ELSE UNION {PlayResults(rules, res[1], res[2], res[3]) :
                    res \in PlayLoopBody(rules, g, actions)}

\* a score in tenths with a flag on a mine worth 1 and not 5
Score10FlagsWorthOne(g, actions) ==
    10 * Cardinality({p \in Pos : ~g.grid[p].isMine /\ g.grid[p].state = REVEALED})
    + 10 * Cardinality({p \in Pos : g.grid[p].isMine /\ g.grid[p].state = FLAGGED})
    - 500 * Cardinality({p \in Pos : g.grid[p].isMine /\ g.grid[p].state = REVEALED})
    - actions
    + (IF g.youWin THEN 20000 ELSE 0)

\* The score of a finished game, in tenths: safeRevealed + 5*correctFlags
\* - 50*minesRevealed - 0.1*actionsTaken, and 2000 more for a win.
Score10(g, actions) ==
    10 * Cardinality({p \in Pos : ~g.grid[p].isMine /\ g.grid[p].state = REVEALED})
    + 50 * Cardinality({p \in Pos : g.grid[p].isMine /\ g.grid[p].state = FLAGGED})
    - 500 * Cardinality({p \in Pos : g.grid[p].isMine /\ g.grid[p].state = REVEALED})
    - actions
    + (IF g.youWin THEN 20000 ELSE 0)

\* what one game of evaluateIndividual can come to for the rules and
\* scenario i of the bank: <<score in tenths, won>>
GameOutcomes(rules, i) ==
    {<<Score10(r[1], r[2]), r[1].youWin>> : r \in PlayResults(rules, BankBoard[i], 0, TRUE)}

\* A double that is a quotient of integers, num/den; "totalScore /
\* selectedGames.size()" of evaluateIndividual with totalScore in tenths.
Quotient(num, den) == [num |-> num, den |-> den]
FitnessGreater(a, b) == a.num * b.den > b.num * a.den

\* The origin of a fitness value, kept beside it: which generation computed
\* it, on which rules and on which sample.  A value that evaluateIndividual
\* did not return (the 0.0 of a constructed Individual, a value read from
\* the file) has the kind of its source and no generation.
NotEvaluated(kind) ==
    [kind |-> kind, generation |-> 0, rules |-> <<>>, selectedGames |-> <<>>]
EvaluatedIn(g, rules, selectedGames) ==
    [kind |-> "evaluated", generation |-> g, rules |-> rules,
     selectedGames |-> selectedGames]

\* struct Individual as default-constructed: no rules, fitness 0.0.  The
\* field "from" is not in the source: it records where the value of fitness
\* comes from.
Individual ==
    [rules |-> <<>>, fitness |-> Quotient(0, 1), from |-> NotEvaluated("default")]

(***************************************************************************)
(* Genetic algorithm parameters (scaled: the source has a population of    *)
(* 300, tournaments of 10, 20 games per generation and 8 threads; the      *)
(* rates are in hundredths).                                               *)
(***************************************************************************)
POPULATION_SIZE == 3
MUTATION_RATE == 2
CROSSOVER_RATE == 80
TOURNAMENT_SIZE == 2
GAMES_PER_GENERATION == 2
NUM_THREADS == 2

\* uniform_real_distribution(0.0, 1.0), in hundredths
dis_real == 0 .. 99

\* The values the distributions yield in the training loop: one rule, so
\* that every individual createRandomIndividual makes there is the same.
TrainDis ==
    [num |-> {1}, hidden |-> {1}, flagged |-> {0}, nearEdge |-> {FALSE},
     pattern |-> {FALSE}, scope |-> {1}, priority |-> {1},
     action |-> {ACTION_PLACE_FLAG}]

RulesOver(dis) ==
    [numberCondition : dis.num, hiddenCondition : dis.hidden,
     flaggedCondition : dis.flagged, nearEdge : dis.nearEdge,
     hasSpecificPattern : dis.pattern, extendedScope : dis.scope,
     priority : dis.priority, action : dis.action]

\* createRandomIndividual: the individuals it can return
createRandomIndividual(dis) ==
    {[Individual EXCEPT !.rules = r] : r \in [1 .. NUM_RULES -> RulesOver(dis)]}

RECURSIVE tournamentFromLastWins(_, _, _, _)

\* a tournament in which a competitor of equal fitness replaces the best
tournamentFromLastWins(pop, draws, i, best) ==
    IF i > TOURNAMENT_SIZE THEN best
    ELSE tournamentFromLastWins(pop, draws, i + 1,
                        IF ~FitnessGreater(best.fitness, pop[draws[i]].fitness)
                        THEN pop[draws[i]] ELSE best)

RECURSIVE tournamentFrom(_, _, _, _)

\* the loop of tournamentSelection from competitor i on
tournamentFrom(pop, draws, i, best) ==
    IF i > TOURNAMENT_SIZE THEN best
    ELSE tournamentFrom(pop, draws, i + 1,
                        IF FitnessGreater(pop[draws[i]].fitness, best.fitness)
                        THEN pop[draws[i]] ELSE best)

\* tournamentSelection, for the indices draws[1..TOURNAMENT_SIZE] that
\* dis(gen_global) yields
tournamentSelection(pop, draws) == tournamentFrom(pop, draws, 2, pop[draws[1]])

\* The rules an out-of-range read of a vector<Rule> may yield (undefined
\* behaviour): whatever lies in memory.
GarbageRules == RulesOver(TrainDis)

\* p.rules[i] as crossover reads it: the values the read may yield
GeneRead(p, i) == IF i <= Len(p.rules) THEN {p.rules[i]} ELSE GarbageRules

\* a crossover whose second offspring takes its genes from the same parent
\* as the first: past the first cut point both hold the genes of p2
crossoverSameParent(p1, p2, points) ==
    LET swapped(i) == \E c \in points : c < i
        genes == [i \in 1 .. NUM_RULES |->
                     IF swapped(i) THEN p2.rules[i] ELSE p1.rules[i]]
    IN  {<<[Individual EXCEPT !.rules = genes], [Individual EXCEPT !.rules = genes]>>}

\* crossover for the sorted cut points: gene i (from 1) comes from the
\* parent of the same name when an even number of points lies below it
crossover(p1, p2, points) ==
    LET swapped(i) == Cardinality({c \in points : c < i}) % 2 = 1
        genes1 == [i \in 1 .. NUM_RULES |->
                      IF swapped(i) THEN GeneRead(p2, i) ELSE GeneRead(p1, i)]
        genes2 == [i \in 1 .. NUM_RULES |->
                      IF swapped(i) THEN GeneRead(p1, i) ELSE GeneRead(p2, i)]
    IN  {<<[Individual EXCEPT !.rules = r1], [Individual EXCEPT !.rules = r2]>> :
            r1 \in {r \in [1 .. NUM_RULES -> GarbageRules \cup
                              {p1.rules[k] : k \in DOMAIN p1.rules} \cup
                              {p2.rules[k] : k \in DOMAIN p2.rules}] :
                        \A i \in 1 .. NUM_RULES : r[i] \in genes1[i]},
            r2 \in {r \in [1 .. NUM_RULES -> GarbageRules \cup
                              {p1.rules[k] : k \in DOMAIN p1.rules} \cup
                              {p2.rules[k] : k \in DOMAIN p2.rules}] :
                        \A i \in 1 .. NUM_RULES : r[i] \in genes2[i]}}

\* the sets of cut points crossover may draw
CutPoints == {c \in SUBSET (1 .. NUM_RULES - 1) : c # {}}

\* a draw of dis_real counts as below the rate when it is at most the rate
MutatedFieldInclusive(rate, old, values) ==
    (IF \E d \in dis_real : ~(d <= rate) THEN {old} ELSE {})
    \cup (IF \E d \in dis_real : d <= rate THEN values ELSE {})

\* one field of mutate: kept when the draw of dis_real is not below the
\* rate, drawn anew otherwise
MutatedFieldAt(rate, old, values) ==
    (IF \E d \in dis_real : ~(d < rate) THEN {old} ELSE {})
    \cup (IF \E d \in dis_real : d < rate THEN values ELSE {})

\* mutate with the constant MUTATION_RATE at the value rate: the individuals
\* it can leave
mutateAt(rate, individual, dis) ==
    {[individual EXCEPT !.rules = r] :
        r \in {q \in [DOMAIN individual.rules ->
                        [numberCondition : UNION {MutatedFieldAt(rate, individual.rules[k].numberCondition, dis.num) : k \in DOMAIN individual.rules},
                         hiddenCondition : UNION {MutatedFieldAt(rate, individual.rules[k].hiddenCondition, dis.hidden) : k \in DOMAIN individual.rules},
                         flaggedCondition : UNION {MutatedFieldAt(rate, individual.rules[k].flaggedCondition, dis.flagged) : k \in DOMAIN individual.rules},
                         nearEdge : UNION {MutatedFieldAt(rate, individual.rules[k].nearEdge, dis.nearEdge) : k \in DOMAIN individual.rules},
                         hasSpecificPattern : UNION {MutatedFieldAt(rate, individual.rules[k].hasSpecificPattern, dis.pattern) : k \in DOMAIN individual.rules},
                         extendedScope : UNION {MutatedFieldAt(rate, individual.rules[k].extendedScope, dis.scope) : k \in DOMAIN individual.rules},
                         priority : UNION {MutatedFieldAt(rate, individual.rules[k].priority, dis.priority) : k \in DOMAIN individual.rules},
                         action : UNION {MutatedFieldAt(rate, individual.rules[k].action, dis.action) : k \in DOMAIN individual.rules}]] :
                  \A k \in DOMAIN individual.rules :
                     /\ q[k].numberCondition \in MutatedFieldAt(rate, individual.rules[k].numberCondition, dis.num)
                     /\ q[k].hiddenCondition \in MutatedFieldAt(rate, individual.rules[k].hiddenCondition, dis.hidden)
                     /\ q[k].flaggedCondition \in MutatedFieldAt(rate, individual.rules[k].flaggedCondition, dis.flagged)
                     /\ q[k].nearEdge \in MutatedFieldAt(rate, individual.rules[k].nearEdge, dis.nearEdge)
                     /\ q[k].hasSpecificPattern \in MutatedFieldAt(rate, individual.rules[k].hasSpecificPattern, dis.pattern)
                     /\ q[k].extendedScope \in MutatedFieldAt(rate, individual.rules[k].extendedScope, dis.scope)
                     /\ q[k].priority \in MutatedFieldAt(rate, individual.rules[k].priority, dis.priority)
                     /\ q[k].action \in MutatedFieldAt(rate, individual.rules[k].action, dis.action)}}

\* mutate: the individuals it can leave
mutate(individual, dis) == mutateAt(MUTATION_RATE, individual, dis)

\* selectFixedGames: the samples std::sample may draw, as indices into the
\* bank fixedGames (the global fixedGamesGlobal of the source) in the order
\* of the bank; all of the bank when it is smaller than numGames, nothing
\* when it is empty
selectFixedGames(fixedGames, numGames) ==
    LET n == IF numGames < Len(fixedGames) THEN numGames ELSE Len(fixedGames)
    IN  {SortedSeq(c) : c \in {d \in SUBSET (DOMAIN fixedGames) : Cardinality(d) = n}}

RECURSIVE EvaluateFrom(_, _, _, _, _)

\* the loop over selectedGames of evaluateIndividual from game k on: the
\* <<totalScore in tenths, wins>> it can end with
EvaluateFrom(rules, selectedGames, k, totalScore, wins) ==
    IF k > Len(selectedGames) THEN {<<totalScore, wins>>}
    ELSE UNION {EvaluateFrom(rules, selectedGames, k + 1, totalScore + o[1],
                             IF o[2] THEN wins + 1 ELSE wins) :
                    o \in GameOutcomes(rules, selectedGames[k])}

\* evaluateIndividual: the <<fitness, wins>> it can return and add to
\* generationWins; generationGames grows by the number of games
evaluateIndividual(rules, selectedGames) ==
    {<<Quotient(r[1], 10 * Len(selectedGames)), r[2]>> :
        r \in EvaluateFrom(rules, selectedGames, 1, 0, 0)}

(***************************************************************************)
(* Persistence of the population.  A file is the sequence of the items     *)
(* written to it, one item for every ofs.write.                            *)
(***************************************************************************)
\* a bool and a RuleAction as written: one byte, and the enumerator's value
EncodeBool(b) == IF b THEN 1 ELSE 0
DecodeBool(x) == x # 0
EncodeAction(a) == IF a = ACTION_REVEAL_HIDDEN THEN 0 ELSE 1
DecodeAction(x) == IF x = 0 THEN ACTION_REVEAL_HIDDEN ELSE ACTION_PLACE_FLAG

RECURSIVE Concat(_, _)

\* seqs[i] \o ... \o seqs[Len(seqs)]
Concat(seqs, i) == IF i > Len(seqs) THEN <<>> ELSE seqs[i] \o Concat(seqs, i + 1)

\* eight writes that put hiddenCondition before numberCondition
RuleItemsOutOfOrder(rule) ==
    <<rule.hiddenCondition, rule.numberCondition, rule.flaggedCondition,
      EncodeBool(rule.nearEdge), EncodeBool(rule.hasSpecificPattern),
      rule.extendedScope, rule.priority, EncodeAction(rule.action)>>

\* the eight writes of savePopulation for one rule
RuleItems(rule) ==
    <<rule.numberCondition, rule.hiddenCondition, rule.flaggedCondition,
      EncodeBool(rule.nearEdge), EncodeBool(rule.hasSpecificPattern),
      rule.extendedScope, rule.priority, EncodeAction(rule.action)>>

\* items written per rule
RULE_ITEMS == 8

\* the writes of savePopulation for one individual
IndividualItems(individual) ==
    <<Len(individual.rules)>>
    \o Concat([k \in DOMAIN individual.rules |-> RuleItems(individual.rules[k])], 1)
    \o <<individual.fitness>>

\* the file populacao_regras.dat with the given items, and no such file
\* (std::ifstream fails to open)
File(items) == [present |-> TRUE, items |-> items]
ABSENT == [present |-> FALSE, items |-> <<>>]

\* savePopulation: the file it leaves
savePopulation(pop) ==
    File(<<Len(pop)>> \o Concat([i \in DOMAIN pop |-> IndividualItems(pop[i])], 1))

\* one field read into a value-initialised Rule: a read past the end of
\* the file leaves the field as it was
ReadField(file, pos, zero) == IF pos <= Len(file) THEN file[pos] ELSE zero

\* the eight reads of loadPopulation for one rule, from item pos
ReadRule(file, pos) ==
    [numberCondition |-> ReadField(file, pos, 0),
     hiddenCondition |-> ReadField(file, pos + 1, 0),
     flaggedCondition |-> ReadField(file, pos + 2, 0),
     nearEdge |-> DecodeBool(ReadField(file, pos + 3, 0)),
     hasSpecificPattern |-> DecodeBool(ReadField(file, pos + 4, 0)),
     extendedScope |-> ReadField(file, pos + 5, 0),
     priority |-> ReadField(file, pos + 6, 0),
     action |-> DecodeAction(ReadField(file, pos + 7, 0))]

RECURSIVE loadFrom(_, _, _, _)

\* the loop of loadPopulation from individual i on, reading at item pos
loadFrom(file, pos, i, pop) ==
    IF i > Len(pop) THEN [ok |-> TRUE, population |-> pop]
    ELSE IF pos > Len(file) THEN [ok |-> FALSE, population |-> pop]
    ELSE IF file[pos] # NUM_RULES THEN [ok |-> FALSE, population |-> pop]
    ELSE LET rules == [j \in 1 .. NUM_RULES |->
                          ReadRule(file, pos + 1 + RULE_ITEMS * (j - 1))]
             fpos == pos + 1 + RULE_ITEMS * NUM_RULES
         IN  IF fpos > Len(file)
             THEN [ok |-> FALSE, population |-> [pop EXCEPT ![i] = [pop[i] EXCEPT !.rules = rules]]]
             ELSE loadFrom(file, fpos + 1, i + 1,
                           [pop EXCEPT ![i] = [rules |-> rules, fitness |-> file[fpos],
                                               from |-> NotEvaluated("checkpoint")]])

RECURSIVE Defaults(_)

\* "population.assign(popSize, Individual())"
Defaults(n) == IF n = 0 THEN <<>> ELSE Append(Defaults(n - 1), Individual)

\* loadPopulation: the value returned and the population left in the
\* argument, which main passes empty
loadPopulation(file) ==
    IF ~file.present THEN [ok |-> FALSE, population |-> <<>>]
    ELSE IF Len(file.items) = 0 THEN [ok |-> FALSE, population |-> <<>>]
    ELSE IF file.items[1] # POPULATION_SIZE THEN [ok |-> FALSE, population |-> <<>>]
    ELSE loadFrom(file.items, 2, 1, Defaults(file.items[1]))

\* the populations of n individuals that n calls of createRandomIndividual
\* can make
RandomIndividuals(n, dis) == [1 .. n -> createRandomIndividual(dis)]

(***************************************************************************)
(* Persistence of the scenario bank.                                       *)
(***************************************************************************)
\* scenarios in a generated bank (scaled: the source generates 200)
FIXED_GAME_COUNT == 3

\* items written per scenario: startX, startY and one char per cell
GAME_ITEMS == 2 + GRID_WIDTH * GRID_HEIGHT

\* the writes of generateFixedGames for one scenario: the start cell, then
\* the cells row by row
GameItems(sc) ==
    <<sc.startX, sc.startY>>
    \o [c \in 1 .. GRID_WIDTH * GRID_HEIGHT |-> EncodeBool(sc.mineGrid[CellAt(c - 1)])]

\* the file generateFixedGames leaves when it draws the scenarios games
BankFileOf(games) ==
    File(Concat([i \in DOMAIN games |-> GameItems(games[i])], 1))

\* the numbers of items a file of the bank can be cut off after: none, whole
\* scenarios, and a scenario short of its last one or two cells
CutPlaces(items) ==
    {n \in 0 .. Len(items) - 1 :
        n % GAME_ITEMS \in {0, GAME_ITEMS - 2, GAME_ITEMS - 1}}

\* what "std::ofstream ofs(filename)" and the writes of generateFixedGames
\* leave of the file: all of it, or, when the writes fail from some item on
\* (no write is checked), the items before it
WrittenFiles(file, write) ==
    IF write = "ok" THEN {file}
    ELSE {File(SubSeq(file.items, 1, n)) : n \in CutPlaces(file.items)}

\* generateFixedGames: the scenario sequences it can draw
generateFixedGames(totalFixedGames) == [1 .. totalFixedGames -> GeneratedGames]

\* a cell read as a mine when the char is 0
DecodeMineInverted(x) == x = 0

\* "fg.mineGrid[y][x] = (mine == 1)"
DecodeMine(x) == x = 1

\* the scenarios one iteration of the loop of loadFixedGames can push when
\* it reads at item pos: a cell whose read fails is set from a char that was
\* never written, so it is a mine or not
ReadGames(items, pos) ==
    LET cells == 0 .. GRID_WIDTH * GRID_HEIGHT - 1
        read == {c \in cells : pos + 2 + c <= Len(items)}
        mines == {CellAt(c) : c \in {d \in read : DecodeMine(items[pos + 2 + d])}}
    IN  {[startX |-> items[pos], startY |-> items[pos + 1],
          mineGrid |-> MineGridOf(mines \cup {CellAt(c) : c \in U})] :
            U \in SUBSET (cells \ read)}

RECURSIVE LoadGamesFrom(_, _)

\* the loop of loadFixedGames from item pos on: the banks it can build.
\* It ends at the end of the file, and when startX or startY is not read.
LoadGamesFrom(items, pos) ==
    IF pos + 1 > Len(items) THEN {<<>>}
    ELSE {<<g>> \o rest : g \in ReadGames(items, pos),
                          rest \in LoadGamesFrom(items, pos + GAME_ITEMS)}

\* loadFixedGames: the values it can return with the vector it leaves in
\* fixedGames
loadFixedGames(fixedGames, file) ==
    IF ~file.present THEN {[ok |-> FALSE, fixedGames |-> fixedGames]}
    ELSE {[ok |-> TRUE, fixedGames |-> b] : b \in LoadGamesFrom(file.items, 1)}

(***************************************************************************)
(* The fitness evaluation of a generation and the next generation.         *)
(***************************************************************************)
\* the task of a future: the std::async thread runs from the creation of
\* the future ("running") until its result is stored ("ready"); get() takes
\* the result ("joined").  With the state go the value returned, the rules
\* and the sample played and the games won, and the position and the locals of the thread
\* in evaluateIndividual: the index k of the scenario played, the Game, the
\* actions taken, the flag of the play loop and the total score in tenths.
NewTask ==
    [state |-> "running", value |-> Quotient(0, 1), rules |-> <<>>, wins |-> 0,
     selectedGames |-> <<>>,
     pc |-> "for", k |-> 1, game |-> NewGame, actions |-> 0, chg |-> FALSE,
     totalScore |-> 0]

\* a task that plays the first scenario of the sample only, unless it is
\* the task of the first individual
TaskSampleCutShort(selectedGames, i) ==
    IF i = 1 THEN selectedGames ELSE SubSeq(selectedGames, 1, 1)

\* the sample a task plays: "evaluateIndividual(ind, currentFixedGames,
\* ...)" in the lambda of every task, which holds the vector by reference
TaskSample(selectedGames, i) == selectedGames

\* an increment that is lost
IncrementLost(counter) == counter

\* "generationWins++", "generationGames++" on a std::atomic<int>: one step
AtomicIncrement(counter) == counter + 1

RECURSIVE SumWins(_, _)

\* the games won by the tasks i .. Len(tasks)
SumWins(tasks, i) ==
    IF i > Len(tasks) THEN 0 ELSE tasks[i].wins + SumWins(tasks, i + 1)

\* a get() that does not wait
FutureReadyNoWait(f) == TRUE

\* futures[i].get() returns when the result is there
FutureReady(f) == f.state = "ready"

\* a loop of get() calls that leaves the last future out
JoinCountShort(pop) == Len(pop) - 1

\* the bound of the loop of get() calls
JoinCount(pop) == Len(pop)

\* a get() whose value is dropped
WriteBackDropped(pop, i, f, g, selectedGames) == pop

\* "population[i].fitness = futures[i].get()"
WriteBack(pop, i, f, g, selectedGames) ==
    [pop EXCEPT ![i] = [rules |-> pop[i].rules, fitness |-> f.value,
                        from |-> EvaluatedIn(g, f.rules, selectedGames)]]

RECURSIVE SortedFrom(_, _)

\* the orders in which std::sort may leave the individuals S of pop
SortedFrom(pop, S) ==
    IF S = {} THEN {<<>>}
    ELSE UNION {{<<pop[i]>> \o t : t \in SortedFrom(pop, S \ {i})} :
                  i \in {k \in S : \A j \in S :
                            ~FitnessGreater(pop[j].fitness, pop[k].fitness)}}

\* the copy of the population left as it stands, not sorted
UnsortedCopy(pop) == {pop}

\* the results std::sort may give for "a.fitness > b.fitness": every
\* arrangement in which no individual stands before one of greater fitness
SortedByFitness(pop) == SortedFrom(pop, DOMAIN pop)

VARIABLES
    game,           \* the Game object (SpecGame), or the local game of a playout
    inits,          \* SpecGame: calls of initializeGridFixed made on the object
    ind,            \* SpecPlay: the rules of the individual evaluated
    fg,             \* SpecPlay: the scenario played
    pc,             \* SpecPlay: position in evaluateIndividual
    changed,        \* SpecPlay: local of evaluateIndividual
    actionsTaken,   \* SpecPlay: local of evaluateIndividual
    iterations,     \* SpecPlay: iterations of the play loop run so far
    checkpoint,     \* the file populacao_regras.dat: its items, or ABSENT
    population,     \* main: std::vector<Individual> population
    mainPc,         \* main: the position of the main thread
    generation,     \* main: int generation
    generationWins, \* main: std::atomic<int> generationWins
    generationGames, \* main: std::atomic<int> generationGames
    currentFixedGames, \* main: the sample, as indices into the bank
    futures,        \* main: std::vector<std::future<double>> and their tasks
    sortedPop,      \* main: std::vector<Individual> sortedPop
    newPopulation,  \* main: std::vector<Individual> newPopulation
    genUsers,       \* the tasks inside a call on gen_global
    lastSaved,      \* the population passed to the latest savePopulation call
    bankFile,       \* the file fixed_games.dat: its items, or ABSENT
    bank,           \* fixedGamesGlobal as loadFixedGames left it
    generatedGames, \* the scenarios the latest generateFixedGames call drew
    call,           \* a function called on its own: its arguments, draws, results
    bankAccess,     \* what the file system lets the run do with fixed_games.dat
    agent,          \* agente_hardcoded: its Game, autoPlay and the move last made
    human           \* the human-playable game: its Game and the event last handled

gameVars == <<game, inits, ind, fg, pc, changed, actionsTaken, iterations>>

playVars == <<ind, fg, pc, changed, actionsTaken, iterations>>

bankVars == <<bankFile, bank, generatedGames>>

appVars == <<call, bankAccess, agent, human>>

mainVars ==
    <<checkpoint, population, mainPc, generation, generationWins, generationGames,
      currentFixedGames, futures, sortedPop, newPopulation, genUsers, lastSaved,
      bankVars>>

trainVars ==
    <<checkpoint, population, mainPc, generation, generationWins, generationGames,
      currentFixedGames, futures, sortedPop, newPopulation, genUsers, lastSaved,
      bankVars, appVars>>

vars == <<gameVars, trainVars>>


\* no function has been called on its own
NoCall == [op |-> "none"]

\* fixed_games.dat can be opened for reading, and created and written whole
FullAccess == [read |-> TRUE, write |-> "ok"]

\* the hardcoded agent is not running
NoAgent == [move |-> "off"]

\* the human-playable game is not running
NoHuman == [event |-> [type |-> "off"]]

AppIdle ==
    /\ call = NoCall
    /\ bankAccess = FullAccess
    /\ agent = NoAgent
    /\ human = NoHuman

\* the trainer is not running (SpecGame, SpecPlay)
TrainIdle ==
    /\ AppIdle
    /\ checkpoint = ABSENT
    /\ population = <<>>
    /\ mainPc = "none"
    /\ generation = 1
    /\ generationWins = 0
    /\ generationGames = 0
    /\ currentFixedGames = <<>>
    /\ futures = <<>>
    /\ sortedPop = <<>>
    /\ newPopulation = <<>>
    /\ genUsers = {}
    /\ lastSaved = <<>>
    /\ bankFile = ABSENT
    /\ bank = <<>>
    /\ generatedGames = <<>>

(***************************************************************************)
(* SpecGame: one Game object driven by arbitrary calls of its members.     *)
(* The first initializeGridFixed takes any start cell and any bitmap of    *)
(* NUM_MINES mines; a board is initialised again from the bank only.       *)
(***************************************************************************)
InitGame ==
    /\ game = NewGame
    /\ inits = 0
    /\ ind = <<>>
    /\ fg = PlayGames[1]
    /\ pc = "none"
    /\ changed = FALSE
    /\ actionsTaken = 0
    /\ iterations = 0
    /\ TrainIdle

\* the boards initializeGridFixed makes of every start cell (or none, -1)
\* with every bitmap
InitialBoards ==
    {initializeGridFixed(startX, startY, mineGrid) :
        startX \in -1 .. GRID_WIDTH - 1, startY \in -1 .. GRID_HEIGHT - 1,
        mineGrid \in Bitmaps}

CallInitializeGridFixed ==
    /\ inits = 0
    /\ game' \in InitialBoards
    /\ inits' = inits + 1
    /\ UNCHANGED <<playVars, trainVars>>

CallInitializeGridFixedAgain ==
    /\ inits >= 1
    /\ inits < MaxInits
    /\ \E i \in DOMAIN PlayGames : game' = PlayBoard[i]
    /\ inits' = inits + 1
    /\ UNCHANGED <<playVars, trainVars>>

CallRevealCell ==
    /\ \E p \in CallPoints : game' = revealCell(game, p[1], p[2])
    /\ UNCHANGED <<inits, playVars, trainVars>>

CallPlaceFlag ==
    /\ \E p \in CallPoints : game' = placeFlag(game, p[1], p[2])
    /\ UNCHANGED <<inits, playVars, trainVars>>

NextGame ==
    \/ CallInitializeGridFixed
    \/ CallInitializeGridFixedAgain
    \/ CallRevealCell
    \/ CallPlaceFlag

SpecGame == InitGame /\ [][NextGame]_vars

\* the mine cells and the safe cells of a board, by state
SafeRevealed(g) == {p \in Pos : ~g.grid[p].isMine /\ g.grid[p].state = REVEALED}
MinesRevealed(g) == {p \in Pos : g.grid[p].isMine /\ g.grid[p].state = REVEALED}

\* C2 (as claimed): on a board initialised from a bitmap of NUM_MINES mines,
\* after every call youWin is true exactly when the number of Revealed
\* non-mine cells is GRID_WIDTH*GRID_HEIGHT - NUM_MINES.
C2_WinIffAllSafeRevealed ==
    inits >= 1 =>
        (game.youWin <=>
            Cardinality(SafeRevealed(game)) = (GRID_WIDTH * GRID_HEIGHT) - NUM_MINES)

\* C3: gameOver is true exactly when some mine cell is Revealed, and a call
\* other than initializeGridFixed never turns gameOver from true to false.
C3_GameOverIffMineRevealed ==
    /\ [](game.gameOver <=> MinesRevealed(game) # {})
    /\ [][(inits' = inits /\ game.gameOver) => game'.gameOver]_vars

\* C3 witness: a mine has been revealed by revealCell on an initialised
\* board, next to safe cells that are revealed too
C3_Witness ==
    /\ inits = MaxInits
    /\ game.gameOver
    /\ MinesRevealed(game) # {}
    /\ SafeRevealed(game) # {}

(***************************************************************************)
(* SpecPlay: evaluateIndividual playing one scenario with one individual.  *)
(***************************************************************************)
InitPlay ==
    /\ ind = <<>>
    /\ fg = PlayGames[1]
    /\ game = NewGame
    /\ pc = "call"
    /\ changed = FALSE
    /\ actionsTaken = 0
    /\ iterations = 0
    /\ inits = 0
    /\ TrainIdle

\* evaluateIndividual is entered with an individual, for a scenario fg of
\* the sample: "Game game; game.initializeGridFixed(...); int actionsTaken =
\* 0; bool changed = true;"
PlayInitialize ==
    /\ pc = "call"
    /\ ind' \in PlayGenomes
    /\ \E i \in DOMAIN PlayGames :
          /\ fg' = PlayGames[i]
          /\ game' = PlayBoard[i]
    /\ actionsTaken' = 0
    /\ changed' = TRUE
    /\ pc' = "loop"
    /\ UNCHANGED <<inits, iterations, trainVars>>

\* one iteration of the play loop
PlayIterate ==
    /\ pc = "loop"
    /\ ~game.gameOver /\ ~game.youWin /\ changed
    /\ \E res \in PlayLoopBody(ind, game, actionsTaken) :
          /\ game' = res[1]
          /\ actionsTaken' = res[2]
          /\ changed' = res[3]
    /\ iterations' = iterations + 1
    /\ UNCHANGED <<inits, ind, fg, pc, trainVars>>

\* the loop condition fails: the playout is over and the board is scored
PlayExit ==
    /\ pc = "loop"
    /\ ~(~game.gameOver /\ ~game.youWin /\ changed)
    /\ pc' = "score"
    /\ UNCHANGED <<game, inits, ind, fg, changed, actionsTaken, iterations, trainVars>>

NextPlay == PlayInitialize \/ PlayIterate \/ PlayExit

SpecPlay == InitPlay /\ [][NextPlay]_vars

\* C1: the play loop ends only with the board lost or won, it runs at most
\* GRID_WIDTH*GRID_HEIGHT iterations, and every iteration leaves strictly
\* fewer Hidden cells than it found (so the loop cannot run forever).
C1_PlayLoopTerminates ==
    /\ [](pc = "score" => (game.gameOver \/ game.youWin))
    /\ [](iterations <= GRID_WIDTH * GRID_HEIGHT)
    /\ [][iterations' # iterations =>
            CountState(game', HIDDEN) < CountState(game, HIDDEN)]_vars

\* C1 witness: a playout has ended won after three iterations or more, in
\* which rules fired (a flag stands) and random cells were revealed
C1_Witness ==
    /\ pc = "score"
    /\ ind # <<>>
    /\ iterations >= 3
    /\ CountState(game, FLAGGED) >= 1
    /\ game.youWin

(***************************************************************************)
(* SpecTrain: main of the trainer from the loading of the population on,   *)
(* with the evaluation tasks of every generation as threads of their own.  *)
(* The bank is fixedGamesGlobal as loaded.                                 *)
(***************************************************************************)
\* generations run before the window is closed, at most
MaxGenerations == 2

\* "generation % 5 == 0" of main, scaled
SAVE_INTERVAL == 2

\* a rule of the training loop with the given action
TrainRule(a) ==
    [numberCondition |-> 1, hiddenCondition |-> 1, flaggedCondition |-> 0,
     nearEdge |-> FALSE, hasSpecificPattern |-> FALSE, extendedScope |-> 1,
     priority |-> 1, action |-> a]

\* a population as an earlier run saved it: n individuals of m rules, which
\* reveal where the rules of TrainDis flag
SavedPopulation(n, m) ==
    [i \in 1 .. n |->
        [rules |-> [j \in 1 .. m |-> TrainRule(ACTION_REVEAL_HIDDEN)],
         fitness |-> Quotient(100 * i, 10),
         from |-> NotEvaluated("saved")]]

\* The files the trainer may find at start-up: none, a checkpoint of this
\* configuration or what is left of it when it is cut off after any number
\* of items, one written with another NUM_RULES, and one written with
\* another POPULATION_SIZE.
CheckpointValid == savePopulation(SavedPopulation(POPULATION_SIZE, NUM_RULES))
CheckpointOtherRules == savePopulation(SavedPopulation(POPULATION_SIZE, NUM_RULES + 1))
CheckpointOtherSize == savePopulation(SavedPopulation(POPULATION_SIZE + 1, NUM_RULES))
StartFiles ==
    {ABSENT, CheckpointOtherRules, CheckpointOtherSize}
    \cup {File(SubSeq(CheckpointValid.items, 1, n)) :
             n \in 0 .. Len(CheckpointValid.items)}

\* the start-up files of the runs followed through the generations
TrainFiles == {ABSENT, CheckpointValid}

\* the genomes of the training loop, and evaluateIndividual tabulated on
\* them for every sample
TrainGenomes ==
    [1 .. NUM_RULES -> {TrainRule(ACTION_REVEAL_HIDDEN), TrainRule(ACTION_PLACE_FLAG)}]
    \cup {<<>>}
EvalTable ==
    {<<x, evaluateIndividual(x[1], x[2])>> :
        x \in TrainGenomes \X selectFixedGames(fixedGamesGlobal, GAMES_PER_GENERATION)}
Evaluate(rules, selectedGames) ==
    IF \E e \in EvalTable : e[1] = <<rules, selectedGames>>
    THEN (CHOOSE e \in EvalTable : e[1] = <<rules, selectedGames>>)[2]
    ELSE evaluateIndividual(rules, selectedGames)

\* main before step 2, with one of the files in place of the checkpoint.
\* (Step 3, which does not depend on step 2, has loaded the training bank.)
InitMain(files) ==
    /\ AppIdle
    /\ game = NewGame
    /\ inits = 0
    /\ ind = <<>>
    /\ fg = PlayGames[1]
    /\ pc = "none"
    /\ changed = FALSE
    /\ actionsTaken = 0
    /\ iterations = 0
    /\ checkpoint \in files
    /\ population = <<>>
    /\ mainPc = "load"
    /\ generation = 1
    /\ generationWins = 0
    /\ generationGames = 0
    /\ currentFixedGames = <<>>
    /\ futures = <<>>
    /\ sortedPop = <<>>
    /\ newPopulation = <<>>
    /\ genUsers = {}
    /\ lastSaved = IF checkpoint = CheckpointValid
                   THEN SavedPopulation(POPULATION_SIZE, NUM_RULES) ELSE <<>>
    /\ bankFile = BankFileOf(fixedGamesGlobal)
    /\ bank = fixedGamesGlobal
    /\ generatedGames = <<>>

InitTrain == InitMain(TrainFiles)

\* main, step 2: the population is loaded, or POPULATION_SIZE random
\* individuals are pushed onto what loadPopulation left
MainLoadPopulation ==
    /\ mainPc = "load"
    /\ LET loaded == loadPopulation(checkpoint)
       IN  IF loaded.ok
           THEN population' = loaded.population
           ELSE \E fresh \in RandomIndividuals(POPULATION_SIZE, TrainDis) :
                   population' = loaded.population \o fresh
    /\ mainPc' = "generation"
    /\ UNCHANGED <<gameVars, appVars, bankVars, lastSaved, checkpoint, generation, generationWins, generationGames,
                   currentFixedGames, futures, sortedPop, newPopulation, genUsers>>

\* the head of the generation loop: the counters and the sample
MainStartGeneration ==
    /\ mainPc = "generation"
    /\ generationWins' = 0
    /\ generationGames' = 0
    /\ currentFixedGames' \in selectFixedGames(bank, GAMES_PER_GENERATION)
    /\ futures' = <<>>
    /\ mainPc' = "dispatch"
    /\ UNCHANGED <<gameVars, appVars, bankVars, lastSaved, checkpoint, population, generation, sortedPop,
                   newPopulation, genUsers>>

\* one iteration of "for (auto &ind : population) futures.emplace_back(
\* std::async(std::launch::async, ...))": a thread is started for the task
MainDispatch ==
    /\ mainPc = "dispatch"
    /\ Len(futures) < Len(population)
    /\ futures' = Append(futures, NewTask)
    /\ mainPc' = IF Len(futures) + 1 = Len(population) THEN "join" ELSE "dispatch"
    /\ UNCHANGED <<gameVars, appVars, bankVars, lastSaved, checkpoint, population, generation, generationWins,
                   generationGames, currentFixedGames, sortedPop, newPopulation,
                   genUsers>>

\* the thread of task i runs evaluateIndividual on population[i] and the
\* sample, adds to the counters and stores its result
TaskRun(i) ==
    /\ futures[i].state = "running"
    /\ LET selectedGames == TaskSample(currentFixedGames, i)
       IN  /\ \E r \in Evaluate(population[i].rules, selectedGames) :
                 /\ futures' = [futures EXCEPT ![i] =
                                   [NewTask EXCEPT !.state = "ready", !.value = r[1],
                                                   !.rules = population[i].rules,
                                                   !.selectedGames = selectedGames,
                                                   !.wins = r[2], !.pc = "return"]]
                 /\ generationWins' = generationWins + r[2]
           /\ generationGames' = generationGames + Len(selectedGames)
    /\ UNCHANGED <<gameVars, appVars, bankVars, lastSaved, checkpoint, population, mainPc, generation,
                   currentFixedGames, sortedPop, newPopulation, genUsers>>

\* the futures main has taken the result of
Joined == {i \in DOMAIN futures : futures[i].state = "joined"}

\* one iteration of "population[i].fitness = futures[i].get()"
MainJoin ==
    /\ mainPc = "join"
    /\ LET i == Cardinality(Joined) + 1
       IN  /\ i <= JoinCount(population)
           /\ FutureReady(futures[i])
           /\ population' = WriteBack(population, i, futures[i], generation,
                                      futures[i].selectedGames)
           /\ futures' = [futures EXCEPT ![i] = [futures[i] EXCEPT !.state = "joined"]]
           /\ mainPc' = IF i = JoinCount(population) THEN "sort" ELSE "join"
    /\ UNCHANGED <<gameVars, appVars, bankVars, lastSaved, checkpoint, generation, generationWins, generationGames,
                   currentFixedGames, sortedPop, newPopulation, genUsers>>

\* "sortedPop = population; std::sort(...)"
MainSort ==
    /\ mainPc = "sort"
    /\ sortedPop' \in SortedByFitness(population)
    /\ mainPc' = "visualize"
    /\ UNCHANGED <<gameVars, appVars, bankVars, lastSaved, checkpoint, population, generation, generationWins,
                   generationGames, currentFixedGames, futures, newPopulation,
                   genUsers>>

\* the statistics and visualizeTopN: games played on copies of the best
\* NUM_INDIVIDUALS_TO_DISPLAY individuals for the windows
MainVisualize ==
    /\ mainPc = "visualize"
    /\ mainPc' = "elitism"
    /\ UNCHANGED <<gameVars, appVars, bankVars, lastSaved, checkpoint, population, generation, generationWins,
                   generationGames, currentFixedGames, futures, sortedPop,
                   newPopulation, genUsers>>

\* elitism: the two best go to the next generation
MainElitism ==
    /\ mainPc = "elitism"
    /\ newPopulation' = IF Len(sortedPop) > 1 THEN <<sortedPop[1], sortedPop[2]>>
                        ELSE <<sortedPop[1]>>
    /\ mainPc' = "fill"
    /\ UNCHANGED <<gameVars, appVars, bankVars, lastSaved, checkpoint, population, generation, generationWins,
                   generationGames, currentFixedGames, futures, sortedPop, genUsers>>

\* the individuals tournamentSelection can return
Parents ==
    {tournamentSelection(population, draws) :
        draws \in [1 .. TOURNAMENT_SIZE -> DOMAIN population]}

\* the offspring of one iteration of the fill loop before mutation
Offspring(parent1, parent2) ==
    (IF \E d \in dis_real : d < CROSSOVER_RATE
     THEN UNION {crossover(parent1, parent2, points) : points \in CutPoints}
     ELSE {})
    \cup (IF \E d \in dis_real : ~(d < CROSSOVER_RATE)
          THEN {<<parent1, parent2>>} ELSE {})

\* one iteration of the fill loop: two tournaments, crossover or copies,
\* two mutations, one or two push_back
MainFill ==
    /\ mainPc = "fill"
    /\ Len(newPopulation) < POPULATION_SIZE
    /\ \E parent1 \in Parents, parent2 \in Parents :
          \E pair \in Offspring(parent1, parent2) :
             \E offspring1 \in mutate(pair[1], TrainDis),
                offspring2 \in mutate(pair[2], TrainDis) :
                   newPopulation' =
                       IF Len(newPopulation) + 1 < POPULATION_SIZE
                       THEN newPopulation \o <<offspring1, offspring2>>
                       ELSE Append(newPopulation, offspring1)
    /\ UNCHANGED <<gameVars, appVars, bankVars, lastSaved, checkpoint, population, mainPc, generation,
                   generationWins, generationGames, currentFixedGames, futures,
                   sortedPop, genUsers>>

\* "population = newPopulation"
MainReplace ==
    /\ mainPc = "fill"
    /\ Len(newPopulation) >= POPULATION_SIZE
    /\ population' = newPopulation
    /\ mainPc' = "save"
    /\ UNCHANGED <<gameVars, appVars, bankVars, lastSaved, checkpoint, generation, generationWins, generationGames,
                   currentFixedGames, futures, sortedPop, newPopulation, genUsers>>

\* the periodic savePopulation
MainSave ==
    /\ mainPc = "save"
    /\ checkpoint' = IF generation % SAVE_INTERVAL = 0 THEN savePopulation(population)
                     ELSE checkpoint
    /\ lastSaved' = IF generation % SAVE_INTERVAL = 0 THEN population ELSE lastSaved
    /\ mainPc' = "poll"
    /\ UNCHANGED <<gameVars, appVars, bankVars, population, generation, generationWins, generationGames,
                   currentFixedGames, futures, sortedPop, newPopulation, genUsers>>

\* the end of the loop body: SDL_QUIT may have come, generation++, and the
\* objects of the body go (the destructor of a future of std::async waits
\* for its thread)
MainPoll ==
    /\ mainPc = "poll"
    /\ \A i \in DOMAIN futures : futures[i].state # "running"
    /\ \/ generation < MaxGenerations /\ mainPc' = "generation"
       \/ mainPc' = "done"
    /\ generation' = generation + 1
    /\ futures' = <<>>
    /\ sortedPop' = <<>>
    /\ newPopulation' = <<>>
    /\ UNCHANGED <<gameVars, appVars, bankVars, lastSaved, checkpoint, population, generationWins, generationGames,
                   currentFixedGames, genUsers>>

NextTrain ==
    \/ MainLoadPopulation
    \/ MainStartGeneration
    \/ MainDispatch
    \/ \E i \in DOMAIN futures : TaskRun(i)
    \/ MainJoin
    \/ MainSort
    \/ MainVisualize
    \/ MainElitism
    \/ MainFill
    \/ MainReplace
    \/ MainSave
    \/ MainPoll

SpecTrain == InitTrain /\ [][NextTrain]_vars

\* the tasks of the generation whose thread has not yet stored its result
Running == {i \in DOMAIN futures : futures[i].state = "running"}

\* the steps of the loop body from the sort of the evaluated population to
\* the replacement of the population
GeneticPhases == {"sort", "visualize", "elitism", "fill"}

\* C4: while main is anywhere from the sort of the evaluated population to
\* the replacement of the population (sort, elitism, tournamentSelection,
\* crossover, mutate, "population = newPopulation"), one evaluation task has
\* been dispatched for every individual of the generation and none of them
\* is still running.
C4_OperatorsAfterAllTasks ==
    mainPc \in GeneticPhases =>
        /\ Len(futures) = Len(population)
        /\ Running = {}

\* the second generation fills its next population after its tasks ended
C4_Witness ==
    /\ mainPc = "fill"
    /\ generation = 2
    /\ Len(newPopulation) = POPULATION_SIZE
    /\ Joined = DOMAIN population

C7_AtMostNumThreadsRunning == Cardinality(Running) <= NUM_THREADS

\* C9: while main is anywhere from the sort to the end of the fill loop,
\* where the sort and tournamentSelection read fitness values, the fitness
\* of every individual of the population is the one evaluateIndividual
\* returned in this generation for the rules the individual has now and the
\* sample of this generation.
C9_FitnessOfThisGeneration ==
    mainPc \in GeneticPhases =>
        \A i \in DOMAIN population :
            population[i].from = EvaluatedIn(generation, population[i].rules,
                                             currentFixedGames)

\* a tournament of the second generation on a population with elites of
\* the first, after a start from a checkpoint
C9_Witness ==
    /\ mainPc = "fill"
    /\ generation = 2
    /\ checkpoint = CheckpointValid
    /\ Len(newPopulation) = 2
    /\ \E i \in DOMAIN population :
          population[i].rules = sortedPop[1].rules

\* C19: the sample changes only at the head of a generation, when no task
\* has been dispatched, and every task of the generation that has returned
\* has played the sample of the generation, so all individuals are scored
\* on the same scenarios.
C19_OneSamplePerGeneration ==
    /\ [](\A i \in DOMAIN futures :
             futures[i].state # "running" =>
                futures[i].selectedGames = currentFixedGames)
    /\ [][currentFixedGames' # currentFixedGames =>
             (mainPc = "generation" /\ futures' = <<>>)]_vars

\* in the second generation two tasks have returned, both on the sample of
\* the generation, and the third is running
C19_Witness ==
    /\ generation = 2
    /\ mainPc = "join"
    /\ Len(currentFixedGames) = GAMES_PER_GENERATION
    /\ futures[1].state = "joined"
    /\ futures[2].state = "ready"
    /\ futures[3].state = "running"
    /\ futures[1].selectedGames = currentFixedGames
    /\ futures[2].selectedGames = currentFixedGames

\* C20: when the new population replaces the evaluated one, its first two
\* individuals carry, rule for rule, the genomes of two distinct individuals
\* of the evaluated population than which no other individual has a strictly
\* greater fitness, the first being at least as fit as the second.
C20_ElitesCopiedUnchanged ==
    [][(mainPc = "fill" /\ mainPc' = "save") =>
          \E k1 \in DOMAIN population, k2 \in DOMAIN population :
             /\ k1 # k2
             /\ population'[1].rules = population[k1].rules
             /\ population'[2].rules = population[k2].rules
             /\ population[k2].fitness.num * population[k1].fitness.den
                   <= population[k1].fitness.num * population[k2].fitness.den
             /\ \A j \in DOMAIN population \ {k1, k2} :
                   population[j].fitness.num * population[k2].fitness.den
                      <= population[k2].fitness.num * population[j].fitness.den]_vars

\* the new population has replaced one whose best two were strictly fitter
\* than the third and had different genomes; they stand first, unchanged,
\* while the third place holds an offspring with another genome
C20_Witness ==
    /\ mainPc = "save"
    /\ Len(sortedPop) = POPULATION_SIZE
    /\ FitnessGreater(sortedPop[2].fitness, sortedPop[3].fitness)
    /\ sortedPop[1].rules # sortedPop[2].rules
    /\ population[1].rules = sortedPop[1].rules
    /\ population[2].rules = sortedPop[2].rules
    /\ population[3].rules # sortedPop[1].rules
    /\ population[3].rules # sortedPop[2].rules

(***************************************************************************)
(* SpecStart: the start-up of the trainer, from every start-up file to the *)
(* head of the first generation.                                           *)
(***************************************************************************)
InitStart == InitMain(StartFiles)

NextStart == MainLoadPopulation \/ MainStartGeneration

SpecStart == InitStart /\ [][NextStart]_vars

\* C10: when the file names POPULATION_SIZE individuals and the rule count
\* of its first individual is not NUM_RULES, loadPopulation returns false,
\* main goes on to the generation loop, and the population it goes on with
\* is POPULATION_SIZE individuals of createRandomIndividual.
C10_MismatchedCheckpointFreshPopulation ==
    [][(/\ mainPc = "load"
        /\ checkpoint.present
        /\ Len(checkpoint.items) >= 2
        /\ checkpoint.items[1] = POPULATION_SIZE
        /\ checkpoint.items[2] # NUM_RULES) =>
          /\ ~loadPopulation(checkpoint).ok
          /\ mainPc' = "generation"
          /\ Len(population') = POPULATION_SIZE
          /\ \A i \in DOMAIN population' :
                population'[i] \in createRandomIndividual(TrainDis)]_vars

\* C11: whenever loadPopulation returns false, whatever the file, every
\* individual of the population main goes on with is one that
\* createRandomIndividual made: nothing that the failed load constructed or
\* read is in it.
C11_FailedLoadLeavesNothing ==
    [][(mainPc = "load" /\ ~loadPopulation(checkpoint).ok) =>
          \A i \in DOMAIN population' :
             /\ population'[i] \in createRandomIndividual(TrainDis)
             /\ population'[i].from.kind # "checkpoint"]_vars

\* C31 (as claimed): when the evaluation of a generation starts (the tasks
\* are about to be dispatched) the population holds POPULATION_SIZE
\* individuals of NUM_RULES rules each, whatever file stood in place of the
\* checkpoint.
C31_PopulationSizeAtEvaluation ==
    mainPc = "dispatch" =>
        /\ Len(population) = POPULATION_SIZE
        /\ \A i \in DOMAIN population : Len(population[i].rules) = NUM_RULES

\* C38 (as claimed): in every generation, every field of every rule of
\* every individual of the population is in the domain from which
\* createRandomIndividual and mutate draw it.
C38_RuleFieldsInDomain ==
    mainPc \in {"generation", "dispatch"} =>
        \A i \in DOMAIN population :
           \A j \in DOMAIN population[i].rules :
              LET rule == population[i].rules[j]
              IN  /\ rule.numberCondition \in dis_num
                  /\ rule.hiddenCondition \in dis_hidden
                  /\ rule.flaggedCondition \in dis_flagged
                  /\ rule.extendedScope \in dis_scope
                  /\ rule.priority \in dis_priority
                  /\ rule.action \in {ACTION_REVEAL_HIDDEN, ACTION_PLACE_FLAG}

(***************************************************************************)
(* SpecEval: the fitness evaluation of the first generation, the thread of *)
(* every task step by step through evaluateIndividual.  A step ends where  *)
(* the thread comes to an object that other threads use: gen_global and    *)
(* the two counters.                                                       *)
(***************************************************************************)
InitEval == InitMain(TrainFiles)

\* task i is a live thread at position p
TaskAt(i, p) ==
    /\ mainPc # "crashed"
    /\ futures[i].state = "running"
    /\ futures[i].pc = p

\* "for (const auto &fg : selectedGames)": the next scenario, a new Game
\* and the locals of the play loop
TaskNextGame(i) ==
    /\ TaskAt(i, "for")
    /\ futures[i].k <= Len(currentFixedGames)
    /\ LET sc == bank[currentFixedGames[futures[i].k]]
       IN  futures' = [futures EXCEPT ![i] =
                          [futures[i] EXCEPT
                              !.game = initializeGridFixed(sc.startX, sc.startY, sc.mineGrid),
                              !.actions = 0, !.chg = TRUE, !.pc = "while"]]
    /\ UNCHANGED <<gameVars, appVars, bankVars, lastSaved, checkpoint, population, mainPc, generation,
                   generationWins, generationGames, currentFixedGames, sortedPop,
                   newPopulation, genUsers>>

\* the play loop runs on
TaskPlaying(i) ==
    /\ ~futures[i].game.gameOver
    /\ ~futures[i].game.youWin
    /\ futures[i].chg

\* one iteration of the play loop up to the call dis(gen_global) of
\* revealRandomCell, which the thread enters when no rule has fired
TaskApplyRules(i) ==
    /\ TaskAt(i, "while")
    /\ TaskPlaying(i)
    /\ \E sortedRules \in SortedByPriority(population[i].rules) :
          LET res == applyRules(sortedRules, futures[i].game)
              hidden == CountState(res[1], HIDDEN) > 0
          IN  IF res[2]
              THEN /\ futures' = [futures EXCEPT ![i] =
                                     [futures[i] EXCEPT !.game = res[1],
                                                        !.actions = @ + 1,
                                                        !.chg = TRUE]]
                   /\ UNCHANGED genUsers
              ELSE IF ~res[1].gameOver /\ ~res[1].youWin
                   THEN IF hidden
                        THEN /\ futures' = [futures EXCEPT ![i] =
                                               [futures[i] EXCEPT !.pc = "draw"]]
                             /\ genUsers' = genUsers \cup {i}
                        ELSE /\ futures' = [futures EXCEPT ![i] =
                                               [futures[i] EXCEPT !.actions = @ + 1,
                                                                  !.chg = TRUE]]
                             /\ UNCHANGED genUsers
                   ELSE /\ futures' = [futures EXCEPT ![i] =
                                          [futures[i] EXCEPT !.chg = FALSE]]
                        /\ UNCHANGED genUsers
    /\ UNCHANGED <<gameVars, appVars, bankVars, lastSaved, checkpoint, population, mainPc, generation,
                   generationWins, generationGames, currentFixedGames, sortedPop,
                   newPopulation>>

\* dis(gen_global) returns and the cell drawn is revealed.  When another
\* thread was inside a call on gen_global at the same time the behaviour is
\* undefined: the draw is as any other, or the program ends.
TaskDraw(i) ==
    /\ TaskAt(i, "draw")
    /\ genUsers' = genUsers \ {i}
    /\ \/ /\ \E h \in revealRandomCell(futures[i].game) :
                futures' = [futures EXCEPT ![i] =
                               [futures[i] EXCEPT !.game = h, !.actions = @ + 1,
                                                  !.chg = TRUE, !.pc = "while"]]
          /\ UNCHANGED mainPc
       \/ /\ genUsers # {i}
          /\ mainPc' = "crashed"
          /\ UNCHANGED futures
    /\ UNCHANGED <<gameVars, appVars, bankVars, lastSaved, checkpoint, population, generation, generationWins,
                   generationGames, currentFixedGames, sortedPop, newPopulation>>

\* the play loop is left and the board is scored
TaskScore(i) ==
    /\ TaskAt(i, "while")
    /\ ~TaskPlaying(i)
    /\ futures' = [futures EXCEPT ![i] =
                      [futures[i] EXCEPT
                          !.totalScore = @ + Score10(futures[i].game, futures[i].actions),
                          !.wins = IF futures[i].game.youWin THEN @ + 1 ELSE @,
                          !.pc = IF futures[i].game.youWin THEN "countWin"
                                 ELSE "countGame"]]
    /\ UNCHANGED <<gameVars, appVars, bankVars, lastSaved, checkpoint, population, mainPc, generation,
                   generationWins, generationGames, currentFixedGames, sortedPop,
                   newPopulation, genUsers>>

\* "generationWins++"
TaskCountWin(i) ==
    /\ TaskAt(i, "countWin")
    /\ generationWins' = AtomicIncrement(generationWins)
    /\ futures' = [futures EXCEPT ![i] = [futures[i] EXCEPT !.pc = "countGame"]]
    /\ UNCHANGED <<gameVars, appVars, bankVars, lastSaved, checkpoint, population, mainPc, generation,
                   generationGames, currentFixedGames, sortedPop, newPopulation,
                   genUsers>>

\* "generationGames++", and the end of the body of the for loop
TaskCountGame(i) ==
    /\ TaskAt(i, "countGame")
    /\ generationGames' = AtomicIncrement(generationGames)
    /\ futures' = [futures EXCEPT ![i] =
                      [futures[i] EXCEPT !.k = @ + 1, !.pc = "for"]]
    /\ UNCHANGED <<gameVars, appVars, bankVars, lastSaved, checkpoint, population, mainPc, generation,
                   generationWins, currentFixedGames, sortedPop, newPopulation,
                   genUsers>>

\* "return totalScore / selectedGames.size()": the result is stored
TaskReturn(i) ==
    /\ TaskAt(i, "for")
    /\ futures[i].k > Len(currentFixedGames)
    /\ futures' = [futures EXCEPT ![i] =
                      [futures[i] EXCEPT
                          !.state = "ready",
                          !.value = Quotient(futures[i].totalScore,
                                             10 * Len(currentFixedGames)),
                          !.rules = population[i].rules,
                          !.selectedGames = currentFixedGames,
                          !.pc = "return"]]
    /\ UNCHANGED <<gameVars, appVars, bankVars, lastSaved, checkpoint, population, mainPc, generation,
                   generationWins, generationGames, currentFixedGames, sortedPop,
                   newPopulation, genUsers>>

NextEval ==
    \/ MainLoadPopulation
    \/ MainStartGeneration
    \/ MainDispatch
    \/ \E i \in DOMAIN futures : TaskNextGame(i)
    \/ \E i \in DOMAIN futures : TaskApplyRules(i)
    \/ \E i \in DOMAIN futures : TaskDraw(i)
    \/ \E i \in DOMAIN futures : TaskScore(i)
    \/ \E i \in DOMAIN futures : TaskCountWin(i)
    \/ \E i \in DOMAIN futures : TaskCountGame(i)
    \/ \E i \in DOMAIN futures : TaskReturn(i)
    \/ MainJoin

SpecEval == InitEval /\ [][NextEval]_vars

\* C6: apart from the two counters, no object that is written is in use by
\* two evaluation tasks at once: at most one task is inside a call on
\* gen_global.
C6_NoObjectSharedByTasks == Cardinality(genUsers) <= 1

\* C8: when every task of the generation has been joined, generationGames
\* is the number of individuals times the number of scenarios of the
\* sample, generationWins is the number of games the tasks won, and
\* generationWins is at most generationGames.
C8_CountersAfterJoin ==
    mainPc = "sort" =>
        /\ generationGames = Len(population) * Len(currentFixedGames)
        /\ generationWins = SumWins(futures, 1)
        /\ generationWins <= generationGames

\* every task joined, some games won and some lost
C8_Witness ==
    /\ mainPc = "sort"
    /\ Joined = DOMAIN population
    /\ generationWins > 0
    /\ generationWins < generationGames

(***************************************************************************)
(* SpecScore: one call of evaluateIndividual followed step by step, for an *)
(* individual whose rules flag and reveal, on a sample of the scenarios of *)
(* PlayGames.                                                              *)
(***************************************************************************)
\* a rule that flags the last hidden cell next to a 1 and a rule that
\* reveals the hidden cells next to a 1 with its flag
ScoreRules ==
    {[numberCondition |-> 1, hiddenCondition |-> 1, flaggedCondition |-> 0,
      nearEdge |-> FALSE, hasSpecificPattern |-> FALSE, extendedScope |-> 1,
      priority |-> 2, action |-> ACTION_PLACE_FLAG],
     [numberCondition |-> 1, hiddenCondition |-> 2, flaggedCondition |-> 1,
      nearEdge |-> TRUE, hasSpecificPattern |-> FALSE, extendedScope |-> 1,
      priority |-> 1, action |-> ACTION_REVEAL_HIDDEN]}
ScoreGenomes == [1 .. NUM_RULES -> ScoreRules] \cup {<<>>}

InitScore ==
    /\ AppIdle
    /\ game = NewGame
    /\ inits = 0
    /\ ind = <<>>
    /\ fg = PlayGames[1]
    /\ pc = "none"
    /\ changed = FALSE
    /\ actionsTaken = 0
    /\ iterations = 0
    /\ checkpoint = ABSENT
    /\ population \in {<<[Individual EXCEPT !.rules = r]>> : r \in ScoreGenomes}
    /\ mainPc = "call"
    /\ generation = 1
    /\ generationWins = 0
    /\ generationGames = 0
    /\ currentFixedGames \in selectFixedGames(PlayGames, GAMES_PER_GENERATION)
    /\ futures = <<NewTask>>
    /\ sortedPop = <<>>
    /\ newPopulation = <<>>
    /\ genUsers = {}
    /\ lastSaved = <<>>
    /\ bankFile = BankFileOf(PlayGames)
    /\ bank = PlayGames
    /\ generatedGames = <<>>

NextScore ==
    \/ TaskNextGame(1)
    \/ TaskApplyRules(1)
    \/ TaskDraw(1)
    \/ TaskScore(1)
    \/ TaskCountWin(1)
    \/ TaskCountGame(1)
    \/ TaskReturn(1)

SpecScore == InitScore /\ [][NextScore]_vars

\* the mines of a board that carry a flag
MinesFlagged(g) == {p \in Pos : g.grid[p].isMine /\ g.grid[p].state = FLAGGED}

\* C18: in tenths, every game a task finishes adds to its totalScore
\* 10*safeRevealed + 50*correctFlags - 500*minesRevealed - actionsTaken,
\* counted on the final board, and 20000 more when the game is won; and
\* the value the task returns is its totalScore over the number of
\* scenarios of the sample.
C18_FitnessIsMeanScore ==
    [][\A i \in DOMAIN futures :
          i \in DOMAIN futures' =>
            /\ (futures[i].pc = "while" /\ futures'[i].pc \in {"countWin", "countGame"}) =>
                  futures'[i].totalScore - futures[i].totalScore =
                      10 * Cardinality(SafeRevealed(futures[i].game))
                      + 50 * Cardinality(MinesFlagged(futures[i].game))
                      - 500 * Cardinality(MinesRevealed(futures[i].game))
                      - futures[i].actions
                      + (IF futures[i].game.youWin THEN 20000 ELSE 0)
            /\ (futures[i].state = "running" /\ futures'[i].state = "ready") =>
                  /\ futures[i].k = Len(currentFixedGames) + 1
                  /\ futures'[i].value.num = futures[i].totalScore
                  /\ futures'[i].value.den = 10 * Len(currentFixedGames)]_vars

\* a won game that ended with a flag on a mine has been added to the total
C18_Witness ==
    /\ futures[1].pc = "countWin"
    /\ futures[1].game.youWin
    /\ MinesFlagged(futures[1].game) # {}
    /\ futures[1].actions >= 2
    /\ futures[1].totalScore > 20000

(***************************************************************************)
(* SpecFile: savePopulation on a population of this configuration and      *)
(* loadPopulation on the file it leaves.                                   *)
(***************************************************************************)
\* the rules and fitness values of the populations saved
FileRules ==
    {[numberCondition |-> 1, hiddenCondition |-> 2, flaggedCondition |-> 0,
      nearEdge |-> FALSE, hasSpecificPattern |-> TRUE, extendedScope |-> 1,
      priority |-> 3, action |-> ACTION_PLACE_FLAG],
     [numberCondition |-> 0, hiddenCondition |-> 8, flaggedCondition |-> 4,
      nearEdge |-> TRUE, hasSpecificPattern |-> FALSE, extendedScope |-> 2,
      priority |-> 10, action |-> ACTION_REVEAL_HIDDEN]}
FileFitness == {Quotient(0 - 441, 20), Quotient(20069, 10)}
FileIndividuals ==
    {[rules |-> r, fitness |-> f, from |-> NotEvaluated("saved")] :
        r \in [1 .. NUM_RULES -> FileRules], f \in FileFitness}

InitFile ==
    /\ AppIdle
    /\ game = NewGame
    /\ inits = 0
    /\ ind = <<>>
    /\ fg = PlayGames[1]
    /\ pc = "none"
    /\ changed = FALSE
    /\ actionsTaken = 0
    /\ iterations = 0
    /\ checkpoint = ABSENT
    /\ population \in [1 .. POPULATION_SIZE -> FileIndividuals]
    /\ mainPc = "save"
    /\ generation = 1
    /\ generationWins = 0
    /\ generationGames = 0
    /\ currentFixedGames = <<>>
    /\ futures = <<>>
    /\ sortedPop = <<>>
    /\ newPopulation = <<>>
    /\ genUsers = {}
    /\ lastSaved = <<>>
    /\ bankFile = ABSENT
    /\ bank = <<>>
    /\ generatedGames = <<>>

\* savePopulation(population, "populacao_regras.dat")
CallSavePopulation ==
    /\ mainPc = "save"
    /\ checkpoint' = savePopulation(population)
    /\ lastSaved' = population
    /\ mainPc' = "saved"
    /\ UNCHANGED <<gameVars, appVars, bankVars, population, generation, generationWins, generationGames,
                   currentFixedGames, futures, sortedPop, newPopulation, genUsers>>

\* loadPopulation(newPopulation, "populacao_regras.dat") on an empty vector
CallLoadPopulation ==
    /\ mainPc = "saved"
    /\ newPopulation' = loadPopulation(checkpoint).population
    /\ mainPc' = IF loadPopulation(checkpoint).ok THEN "loaded" ELSE "not loaded"
    /\ UNCHANGED <<gameVars, appVars, bankVars, lastSaved, checkpoint, population, generation, generationWins,
                   generationGames, currentFixedGames, futures, sortedPop, genUsers>>

NextFile == CallSavePopulation \/ CallLoadPopulation

SpecFile == InitFile /\ [][NextFile]_vars

\* C12: after savePopulation on a population of POPULATION_SIZE individuals
\* of NUM_RULES rules each and loadPopulation on the file, loadPopulation
\* has returned true and the population loaded has the same individuals in
\* the same order, each with the same rules field for field and the same
\* fitness.
C12_SaveLoadRoundTrip ==
    mainPc \in {"loaded", "not loaded"} =>
        /\ mainPc = "loaded"
        /\ Len(newPopulation) = Len(population)
        /\ \A i \in DOMAIN population :
              /\ newPopulation[i].rules = population[i].rules
              /\ newPopulation[i].fitness = population[i].fitness

\* a population with both rules, both truth values of the bool fields, both
\* actions and both fitness values has gone through the file
C12_Witness ==
    /\ mainPc = "loaded"
    /\ {newPopulation[i].rules[j] : i \in DOMAIN newPopulation, j \in 1 .. NUM_RULES}
          = FileRules
    /\ {newPopulation[i].fitness : i \in DOMAIN newPopulation} = FileFitness

(***************************************************************************)
(* SpecRestart: the trainer killed at any point and started again.  The    *)
(* periodic save is followed write by write: what an interrupted           *)
(* savePopulation leaves in the file is what it had written.               *)
(***************************************************************************)
InitRestart == InitMain(TrainFiles)

\* "if (generation % 5 == 0)" is false
MainSaveNotDue ==
    /\ mainPc = "save"
    /\ generation % SAVE_INTERVAL # 0
    /\ mainPc' = "poll"
    /\ UNCHANGED <<gameVars, appVars, bankVars, lastSaved, checkpoint, population, generation,
                   generationWins, generationGames, currentFixedGames, futures,
                   sortedPop, newPopulation, genUsers>>

\* savePopulation, "std::ofstream ofs(filename, std::ios::binary)": the
\* file is opened for writing and what it held is gone
SaveOpen ==
    /\ mainPc = "save"
    /\ generation % SAVE_INTERVAL = 0
    /\ checkpoint' = File(<<>>)
    /\ lastSaved' = population
    /\ mainPc' = "saving"
    /\ UNCHANGED <<gameVars, appVars, bankVars, population, generation, generationWins,
                   generationGames, currentFixedGames, futures, sortedPop,
                   newPopulation, genUsers>>

\* savePopulation: the next item reaches the file
SaveWrite ==
    /\ mainPc = "saving"
    /\ Len(checkpoint.items) < Len(savePopulation(population).items)
    /\ checkpoint' = File(SubSeq(savePopulation(population).items, 1,
                                 Len(checkpoint.items) + 1))
    /\ UNCHANGED <<gameVars, appVars, bankVars, lastSaved, population, mainPc, generation,
                   generationWins, generationGames, currentFixedGames, futures,
                   sortedPop, newPopulation, genUsers>>

\* savePopulation: "ofs.close()" after the last write
SaveClose ==
    /\ mainPc = "saving"
    /\ checkpoint = savePopulation(population)
    /\ mainPc' = "poll"
    /\ UNCHANGED <<gameVars, appVars, bankVars, lastSaved, checkpoint, population, generation,
                   generationWins, generationGames, currentFixedGames, futures,
                   sortedPop, newPopulation, genUsers>>

\* the process is killed (Ctrl+C): its memory and its threads are gone, the
\* files stay as they are
Interrupt ==
    /\ mainPc \notin {"load", "restart", "resumed", "done"}
    /\ mainPc' = "restart"
    /\ population' = <<>>
    /\ generation' = 1
    /\ generationWins' = 0
    /\ generationGames' = 0
    /\ currentFixedGames' = <<>>
    /\ futures' = <<>>
    /\ sortedPop' = <<>>
    /\ newPopulation' = <<>>
    /\ genUsers' = {}
    /\ UNCHANGED <<gameVars, appVars, bankVars, lastSaved, checkpoint>>

\* the program is started again: step 2 of main, as MainLoadPopulation;
\* the run is followed no further
MainResume ==
    /\ mainPc = "restart"
    /\ LET loaded == loadPopulation(checkpoint)
       IN  IF loaded.ok
           THEN population' = loaded.population
           ELSE \E fresh \in RandomIndividuals(POPULATION_SIZE, TrainDis) :
                   population' = loaded.population \o fresh
    /\ mainPc' = "resumed"
    /\ UNCHANGED <<gameVars, appVars, bankVars, lastSaved, checkpoint, generation,
                   generationWins, generationGames, currentFixedGames, futures,
                   sortedPop, newPopulation, genUsers>>

NextRestart ==
    \/ MainLoadPopulation
    \/ MainStartGeneration
    \/ MainDispatch
    \/ \E i \in DOMAIN futures : TaskRun(i)
    \/ MainJoin
    \/ MainSort
    \/ MainVisualize
    \/ MainElitism
    \/ MainFill
    \/ MainReplace
    \/ MainSaveNotDue
    \/ SaveOpen
    \/ SaveWrite
    \/ SaveClose
    \/ MainPoll
    \/ Interrupt
    \/ MainResume

SpecRestart == InitRestart /\ [][NextRestart]_vars

\* C13: when the trainer has been killed and started again, and a periodic
\* savePopulation call was made before (in this run or in the run that left
\* the checkpoint), the population it goes on with is the population passed
\* to the latest such call, individual by individual in rules and fitness.
C13_ResumesFromLastSave ==
    (mainPc = "resumed" /\ lastSaved # <<>>) =>
        /\ Len(population) = Len(lastSaved)
        /\ \A i \in DOMAIN lastSaved :
              /\ population[i].rules = lastSaved[i].rules
              /\ population[i].fitness = lastSaved[i].fitness

(***************************************************************************)
(* SpecBank: step 3 of main, the generation or the loading of the bank,    *)
(* and the first evaluation on the bank loaded.  The bank files are the    *)
(* training bank and what is left of it after any number of scenarios, so  *)
(* that a sample of the loaded bank indexes fixedGamesGlobal.              *)
(***************************************************************************)
\* fixed_games.dat at start-up: none, or a bank of 0 to 3 scenarios
BankFiles ==
    {ABSENT} \cup {BankFileOf(SubSeq(fixedGamesGlobal, 1, n)) :
                     n \in 0 .. Len(fixedGamesGlobal)}

InitBank ==
    /\ AppIdle
    /\ game = NewGame
    /\ inits = 0
    /\ ind = <<>>
    /\ fg = PlayGames[1]
    /\ pc = "none"
    /\ changed = FALSE
    /\ actionsTaken = 0
    /\ iterations = 0
    /\ checkpoint = ABSENT
    /\ population \in [1 .. POPULATION_SIZE ->
                          {[Individual EXCEPT !.rules = r] : r \in TrainGenomes \ {<<>>}}]
    /\ mainPc = "bank"
    /\ generation = 1
    /\ generationWins = 0
    /\ generationGames = 0
    /\ currentFixedGames = <<>>
    /\ futures = <<>>
    /\ sortedPop = <<>>
    /\ newPopulation = <<>>
    /\ genUsers = {}
    /\ lastSaved = <<>>
    /\ bankFile \in BankFiles
    /\ bank = <<>>
    /\ generatedGames = <<>>

\* "if (!infile.good()) generateFixedGames(fixedGamesFile, FIXED_GAME_COUNT)",
\* followed for the draw that makes the training bank
MainGenerateFixedGames ==
    /\ mainPc = "bank"
    /\ IF bankFile.present /\ bankAccess.read
       THEN UNCHANGED <<bankFile, generatedGames>>
       ELSE IF bankAccess.write = "fails"
       THEN UNCHANGED <<bankFile, generatedGames>>
       ELSE \E games \in {fixedGamesGlobal} \cap generateFixedGames(FIXED_GAME_COUNT) :
               /\ bankFile' \in WrittenFiles(BankFileOf(games), bankAccess.write)
               /\ generatedGames' = games
    /\ mainPc' = "loadBank"
    /\ UNCHANGED <<gameVars, appVars, bank, lastSaved, checkpoint, population, generation,
                   generationWins, generationGames, currentFixedGames, futures,
                   sortedPop, newPopulation, genUsers>>

\* "if (!loadFixedGames(fixedGamesGlobal, fixedGamesFile)) return 1", and
\* on to the generation loop
MainLoadFixedGames ==
    /\ mainPc = "loadBank"
    /\ \E r \in loadFixedGames(bank, IF bankAccess.read THEN bankFile ELSE ABSENT) :
          /\ bank' = r.fixedGames
          /\ mainPc' = IF r.ok THEN "generation" ELSE "exit"
    /\ UNCHANGED <<gameVars, appVars, bankFile, generatedGames, lastSaved, checkpoint,
                   population, generation, generationWins, generationGames,
                   currentFixedGames, futures, sortedPop, newPopulation, genUsers>>

NextBank ==
    \/ MainGenerateFixedGames
    \/ MainLoadFixedGames
    \/ MainStartGeneration
    \/ MainDispatch
    \/ \E i \in DOMAIN futures : TaskRun(i)
    \/ MainJoin

SpecBank == InitBank /\ [][NextBank]_vars

\* C14: no evaluation task is dispatched on an empty sample and no fitness
\* is a total score divided by zero: the trainer has stopped before.
C14_NoEvaluationOnEmptySample ==
    /\ mainPc \in {"dispatch", "join", "sort"} => currentFixedGames # <<>>
    /\ \A i \in DOMAIN futures : futures[i].value.den # 0
    /\ \A i \in DOMAIN population : population[i].fitness.den # 0

(***************************************************************************)
(* SpecGenerate: generateFixedGames with every draw it can make, and       *)
(* loadFixedGames on the file it leaves.                                   *)
(***************************************************************************)
InitGenerate ==
    /\ AppIdle
    /\ game = NewGame
    /\ inits = 0
    /\ ind = <<>>
    /\ fg = PlayGames[1]
    /\ pc = "none"
    /\ changed = FALSE
    /\ actionsTaken = 0
    /\ iterations = 0
    /\ checkpoint = ABSENT
    /\ population = <<>>
    /\ mainPc = "bank"
    /\ generation = 1
    /\ generationWins = 0
    /\ generationGames = 0
    /\ currentFixedGames = <<>>
    /\ futures = <<>>
    /\ sortedPop = <<>>
    /\ newPopulation = <<>>
    /\ genUsers = {}
    /\ lastSaved = <<>>
    /\ bankFile = ABSENT
    /\ bank = <<>>
    /\ generatedGames = <<>>

\* generateFixedGames(fixedGamesFile, FIXED_GAME_COUNT)
CallGenerateFixedGames ==
    /\ mainPc = "bank"
    /\ \E games \in generateFixedGames(FIXED_GAME_COUNT) :
          /\ bankFile' = BankFileOf(games)
          /\ generatedGames' = games
    /\ mainPc' = "loadBank"
    /\ UNCHANGED <<gameVars, appVars, bank, lastSaved, checkpoint, population, generation,
                   generationWins, generationGames, currentFixedGames, futures,
                   sortedPop, newPopulation, genUsers>>

\* loadFixedGames(fixedGamesGlobal, fixedGamesFile)
CallLoadFixedGames ==
    /\ mainPc = "loadBank"
    /\ \E r \in loadFixedGames(bank, bankFile) :
          /\ bank' = r.fixedGames
          /\ mainPc' = IF r.ok THEN "bankLoaded" ELSE "exit"
    /\ UNCHANGED <<gameVars, appVars, bankFile, generatedGames, lastSaved, checkpoint,
                   population, generation, generationWins, generationGames,
                   currentFixedGames, futures, sortedPop, newPopulation, genUsers>>

NextGenerate == CallGenerateFixedGames \/ CallLoadFixedGames

SpecGenerate == InitGenerate /\ [][NextGenerate]_vars

\* the mines of a scenario
MinesOf(sc) == {p \in Pos : sc.mineGrid[p]}

\* C15: when the bank generateFixedGames wrote has been read back by
\* loadFixedGames, the load has succeeded, the bank holds FIXED_GAME_COUNT
\* scenarios, each is the scenario generated at its place, has NUM_MINES
\* mines and a start cell on the board, and has no mine in the 3x3 block
\* around the start cell.
C15_BankGeneratedAndLoaded ==
    mainPc \in {"bankLoaded", "exit"} =>
        /\ mainPc = "bankLoaded"
        /\ Len(bank) = FIXED_GAME_COUNT
        /\ \A i \in DOMAIN bank :
              /\ bank[i] = generatedGames[i]
              /\ Cardinality(MinesOf(bank[i])) = NUM_MINES
              /\ InBounds(bank[i].startX, bank[i].startY)
              /\ \A p \in MinesOf(bank[i]) :
                    \/ p[1] < bank[i].startX - 1 \/ p[1] > bank[i].startX + 1
                    \/ p[2] < bank[i].startY - 1 \/ p[2] > bank[i].startY + 1

\* a bank loaded with a scenario that starts in a corner and one that
\* starts on an edge
C15_Witness ==
    /\ mainPc = "bankLoaded"
    /\ Len(bank) = FIXED_GAME_COUNT
    /\ \E i \in DOMAIN bank : bank[i].startX = 0 /\ bank[i].startY = 0
    /\ \E i \in DOMAIN bank : bank[i].startX = 1 /\ bank[i].startY = 2

(***************************************************************************)
(* SpecInit: initializeGridFixed called on a Game with every start cell    *)
(* (or none, -1) and every bitmap of NUM_MINES mines; fg keeps the         *)
(* arguments of the call.                                                  *)
(***************************************************************************)
InitInit ==
    /\ game = NewGame
    /\ inits = 0
    /\ ind = <<>>
    /\ fg = PlayGames[1]
    /\ pc = "none"
    /\ changed = FALSE
    /\ actionsTaken = 0
    /\ iterations = 0
    /\ TrainIdle

CallInitializeGridFixedWith ==
    /\ inits < MaxInits
    /\ \E startX \in -1 .. GRID_WIDTH - 1, startY \in -1 .. GRID_HEIGHT - 1,
          mineGrid \in Bitmaps :
          /\ fg' = [startX |-> startX, startY |-> startY, mineGrid |-> mineGrid]
          /\ game' = initializeGridFixed(startX, startY, mineGrid)
    /\ inits' = inits + 1
    /\ UNCHANGED <<ind, pc, changed, actionsTaken, iterations, trainVars>>

NextInit == CallInitializeGridFixedWith

SpecInit == InitInit /\ [][NextInit]_vars

\* the cells next to p, in a row, a column or a diagonal
Adjacent(p) ==
    {q \in Pos : /\ q # p
                 /\ q[1] - p[1] \in -1 .. 1
                 /\ q[2] - p[2] \in -1 .. 1}

\* C16: after initializeGridFixed, the mines of the board are those of the
\* bitmap and neighboringMines of every cell that is not a mine is the
\* number of mines among the cells next to it.
C16_NeighbourCounts ==
    inits >= 1 =>
        \A p \in Pos :
            /\ game.grid[p].isMine = fg.mineGrid[p]
            /\ ~game.grid[p].isMine =>
                  game.grid[p].neighboringMines =
                      Cardinality({q \in Adjacent(p) : fg.mineGrid[q]})

\* a board with a cell between two mines, a cell next to one and a cell
\* next to none
C16_Witness ==
    /\ inits >= 1
    /\ \E p \in Pos : ~game.grid[p].isMine /\ game.grid[p].neighboringMines = 2
    /\ \E p \in Pos : ~game.grid[p].isMine /\ game.grid[p].neighboringMines = 1
    /\ \E p \in Pos : ~game.grid[p].isMine /\ game.grid[p].neighboringMines = 0

\* C17: after initializeGridFixed with a start cell on the board and a
\* bitmap with no mine on the start cell or next to it, the start cell is
\* REVEALED, no mine is REVEALED and gameOver is false.
C17_SafeOpening ==
    (/\ inits >= 1
     /\ InBounds(fg.startX, fg.startY)
     /\ \A q \in Adjacent(<<fg.startX, fg.startY>>) \cup {<<fg.startX, fg.startY>>} :
           ~fg.mineGrid[q]) =>
        /\ game.grid[<<fg.startX, fg.startY>>].state = REVEALED
        /\ MinesRevealed(game) = {}
        /\ ~game.gameOver

\* an opening from a corner that floods to cells next to a mine and leaves
\* cells hidden
C17_Witness ==
    /\ inits >= 1
    /\ fg.startX = 0 /\ fg.startY = 0
    /\ \A q \in Adjacent(<<0, 0>>) \cup {<<0, 0>>} : ~fg.mineGrid[q]
    /\ Cardinality(SafeRevealed(game)) > 1
    /\ \E p \in Pos : ~game.grid[p].isMine /\ game.grid[p].state = HIDDEN


(***************************************************************************)
(* SpecOperators: the genetic operators called on their own, on parents    *)
(* and populations drawn from small sets, for every outcome of the draws   *)
(* of gen_global.                                                          *)
(***************************************************************************)
\* the rules of the genomes the operators are called on
GeneRules ==
    {TrainRule(ACTION_REVEAL_HIDDEN), TrainRule(ACTION_PLACE_FLAG),
     [TrainRule(ACTION_PLACE_FLAG) EXCEPT !.priority = 2]}

\* the individuals the operators are called on: NUM_RULES rules each
GeneIndividuals ==
    {[Individual EXCEPT !.rules = r] : r \in [1 .. NUM_RULES -> GeneRules]}

\* the values the distributions of mutate yield
GeneDis ==
    [TrainDis EXCEPT !.priority = {1, 2},
                     !.action = {ACTION_REVEAL_HIDDEN, ACTION_PLACE_FLAG}]

\* the values of MUTATION_RATE mutate is run with: that of the model and 0
GeneRates == {MUTATION_RATE, 0}

\* the fitness values of the populations of a tournament: sums of scores
\* over the games of a sample, two of them the same number
GeneFitness == {Quotient(0, 2), Quotient(100, 2), Quotient(50, 1)}

\* the populations of a tournament: the individual at place i has the rules
\* of TrainDis at the priority i, so that the places can be told apart
GenePopulations ==
    {[i \in 1 .. POPULATION_SIZE |->
         [rules |-> [j \in 1 .. NUM_RULES |->
                        [TrainRule(ACTION_PLACE_FLAG) EXCEPT !.priority = i]],
          fitness |-> f[i],
          from |-> NotEvaluated("default")]] :
        f \in [1 .. POPULATION_SIZE -> GeneFitness]}

InitOperators == InitGame

CallCrossover ==
    \E p1 \in GeneIndividuals, p2 \in GeneIndividuals, points \in CutPoints :
       \E pair \in crossover(p1, p2, points) :
          /\ call' = [op |-> "crossover", p1 |-> p1, p2 |-> p2, points |-> points,
                      o1 |-> pair[1], o2 |-> pair[2]]
          /\ UNCHANGED <<gameVars, mainVars, bankAccess, agent, human>>

CallMutate ==
    \E rate \in GeneRates, individual \in GeneIndividuals :
       \E mutated \in mutateAt(rate, individual, GeneDis) :
          /\ call' = [op |-> "mutate", rate |-> rate, before |-> individual,
                      after |-> mutated]
          /\ UNCHANGED <<gameVars, mainVars, bankAccess, agent, human>>

CallTournamentSelection ==
    \E pop \in GenePopulations, draws \in [1 .. TOURNAMENT_SIZE -> 1 .. POPULATION_SIZE] :
       /\ call' = [op |-> "tournamentSelection", before |-> pop, pop |-> pop,
                   draws |-> draws, best |-> tournamentSelection(pop, draws)]
       /\ UNCHANGED <<gameVars, mainVars, bankAccess, agent, human>>

\* the fields of a Rule that calculateGeneticDistance compares
ComparedFields ==
    {"numberCondition", "hiddenCondition", "flaggedCondition", "nearEdge",
     "hasSpecificPattern", "extendedScope", "action"}

\* calculateGeneticDistance: "distance++" for every compared field that
\* differs, over NUM_RULES * 7.0
calculateGeneticDistance(a, b) ==
    Quotient(Cardinality({x \in (1 .. NUM_RULES) \X ComparedFields :
                             a.rules[x[1]][x[2]] # b.rules[x[1]][x[2]]}),
             NUM_RULES * 7)

CallCalculateGeneticDistance ==
    \E a \in GeneIndividuals, b \in GeneIndividuals :
       /\ call' = [op |-> "calculateGeneticDistance", a |-> a, b |-> b,
                   distance |-> calculateGeneticDistance(a, b),
                   back |-> calculateGeneticDistance(b, a)]
       /\ UNCHANGED <<gameVars, mainVars, bankAccess, agent, human>>

NextOperators ==
    \/ CallCrossover
    \/ CallMutate
    \/ CallTournamentSelection
    \/ CallCalculateGeneticDistance

SpecOperators == InitOperators /\ [][NextOperators]_vars

\* the gene fields of two genomes that differ, all the fields of Rule counted
DifferingFields(a, b) ==
    {x \in (1 .. NUM_RULES) \X DOMAIN a.rules[1] : a.rules[x[1]][x[2]] # b.rules[x[1]][x[2]]}

\* C39 (as claimed): the distance is the number of gene fields that differ
\* over the number of gene fields of a genome; it is the same in both
\* directions, lies between 0 and 1, and is 0 exactly when the genomes are
\* equal field for field.
C39_DistanceIsFractionOfFields ==
    call.op = "calculateGeneticDistance" =>
       /\ call.distance.num * (NUM_RULES * Cardinality(DOMAIN call.a.rules[1])) =
             Cardinality(DifferingFields(call.a, call.b)) * call.distance.den
       /\ call.distance = call.back
       /\ call.distance.num >= 0
       /\ call.distance.num <= call.distance.den
       /\ call.distance.num = 0 <=> call.a.rules = call.b.rules

C22_NoMutationAtRateZero ==
    (call.op = "mutate" /\ call.rate = 0) => call.after = call.before

\* mutate has run at rate 0 on an individual whose rules differ, and at
\* the rate of the model it does change individuals
C22_Witness ==
    /\ call.op = "mutate"
    /\ call.rate = 0
    /\ call.before.rules[1] # call.before.rules[2]
    /\ call.after.rules = call.before.rules
    /\ \E individual \in GeneIndividuals :
          \E mutated \in mutateAt(MUTATION_RATE, individual, GeneDis) :
             mutated # individual

\* the place among the draws of the individual a tournament returns: the
\* first whose fitness no drawn individual exceeds
FirstBest(pop, draws) ==
    CHOOSE k \in DOMAIN draws :
       /\ \A m \in DOMAIN draws :
             ~FitnessGreater(pop[draws[m]].fitness, pop[draws[k]].fitness)
       /\ \A j \in 1 .. k - 1 :
             \E m \in DOMAIN draws :
                FitnessGreater(pop[draws[m]].fitness, pop[draws[j]].fitness)

\* C23: tournamentSelection returns the member of the population drawn
\* first among those drawn whose fitness none of the TOURNAMENT_SIZE drawn
\* individuals exceeds, and leaves the population as it was.
C23_TournamentReturnsFirstBest ==
    call.op = "tournamentSelection" =>
       /\ call.best = call.before[call.draws[FirstBest(call.before, call.draws)]]
       /\ \A m \in DOMAIN call.draws :
             call.best.fitness.num * call.before[call.draws[m]].fitness.den
                >= call.before[call.draws[m]].fitness.num * call.best.fitness.den
       /\ call.pop = call.before

\* two different individuals of the same highest fitness are drawn and the
\* one drawn first is returned
C23_Witness ==
    /\ call.op = "tournamentSelection"
    /\ call.draws[1] # call.draws[2]
    /\ call.before[call.draws[1]].fitness = Quotient(100, 2)
    /\ call.before[call.draws[2]].fitness = Quotient(50, 1)
    /\ call.best = call.before[call.draws[1]]
    /\ call.best # call.before[call.draws[2]]


(***************************************************************************)
(* SpecApply: applyRules called once on a board that calls of              *)
(* initializeGridFixed, revealCell and placeFlag have made, for genomes of  *)
(* one Flag rule and genomes of two rules of equal or different priority,  *)
(* and for every order std::sort may leave the rules in.                   *)
(***************************************************************************)
\* a rule with no edge or pattern condition and scope 1
ApplyRule(number, hidden, flagged, priority, action) ==
    [numberCondition |-> number, hiddenCondition |-> hidden,
     flaggedCondition |-> flagged, nearEdge |-> FALSE,
     hasSpecificPattern |-> FALSE, extendedScope |-> 1,
     priority |-> priority, action |-> action]

\* the Flag rules with hiddenCondition = 1, flaggedCondition = numberCondition - 1
FlagRules == {ApplyRule(n, 1, n - 1, 1, ACTION_PLACE_FLAG) : n \in 1 .. 2}

\* the Reveal rules that can act: flaggedCondition = numberCondition
RevealRules == {ApplyRule(1, h, 1, p, ACTION_REVEAL_HIDDEN) : h \in 1 .. 2, p \in 1 .. 2}

\* the genomes applyRules is called with
ApplyGenomes ==
    {<<f>> : f \in FlagRules}
    \cup {<<a, b>> : a \in FlagRules, b \in RevealRules}
    \cup {<<b, a>> : a \in FlagRules, b \in RevealRules}

InitApply == InitGame

\* the board of a generated scenario, as evaluateIndividual makes it
CallInitializeGridFixedGenerated ==
    /\ inits = 0
    /\ \E sc \in GeneratedGames :
          /\ fg' = sc
          /\ game' = initializeGridFixed(sc.startX, sc.startY, sc.mineGrid)
    /\ inits' = inits + 1
    /\ UNCHANGED <<ind, pc, changed, actionsTaken, iterations, trainVars>>

CallApplyRules ==
    /\ inits >= 1
    /\ call = NoCall
    /\ \E rules \in ApplyGenomes :
          \E sortedRules \in SortedByPriority(rules) :
             LET r == applyRules(sortedRules, game)
             IN  /\ game' = r[1]
                 /\ call' = [op |-> "applyRules", rules |-> rules,
                             sortedRules |-> sortedRules, before |-> game,
                             after |-> r[1], changed |-> r[2]]
    /\ UNCHANGED <<inits, playVars, mainVars, bankAccess, agent, human>>

\* revealCell and placeFlag called on the board before applyRules is
SetupRevealCell ==
    /\ call = NoCall
    /\ CallRevealCell

SetupPlaceFlag ==
    /\ call = NoCall
    /\ CallPlaceFlag

NextApply ==
    \/ CallInitializeGridFixedGenerated
    \/ SetupRevealCell
    \/ SetupPlaceFlag
    \/ CallApplyRules

SpecApply == InitApply /\ [][NextApply]_vars

\* sortedRules as a stable sort by descending priority leaves it: rules of
\* equal priority in the order of the genome
StableByPriority(rules) ==
    LET place(k) == 1 + Cardinality({j \in DOMAIN rules :
                          \/ rules[j].priority > rules[k].priority
                          \/ rules[j].priority = rules[k].priority /\ j < k})
    IN  [i \in DOMAIN rules |-> rules[CHOOSE k \in DOMAIN rules : place(k) = i]]

\* C24: applyRules leaves the board, and returns the value, that applying
\* the rules in descending priority, rules of equal priority in genome
\* order, gives: the result is a function of the genome and the board.
C24_RulesAppliedInStableOrder ==
    call.op = "applyRules" =>
       /\ call.after = applyRules(StableByPriority(call.rules), call.before)[1]
       /\ call.changed = applyRules(StableByPriority(call.rules), call.before)[2]

\* the cells around (x, y) in a given state
NeighboursIn(g, x, y, state) ==
    {q \in Window(x, y, 1) : q # <<x, y>> /\ g.grid[q].state = state}

\* C25: for a genome of one Flag rule with hiddenCondition = 1 and
\* flaggedCondition = numberCondition - 1, applyRules on a board that is not
\* terminal and has a Revealed cell of that number with exactly one Hidden
\* neighbour and flaggedCondition Flagged neighbours leaves that neighbour
\* Flagged and returns true.
C25_SingleFlagRuleFlags ==
    (/\ call.op = "applyRules"
     /\ Len(call.rules) = 1
     /\ call.rules[1] \in FlagRules
     /\ ~call.before.gameOver
     /\ ~call.before.youWin) =>
       \A p \in Pos :
          (/\ call.before.grid[p].state = REVEALED
           /\ call.before.grid[p].neighboringMines = call.rules[1].numberCondition
           /\ Cardinality(NeighboursIn(call.before, p[1], p[2], HIDDEN)) = 1
           /\ Cardinality(NeighboursIn(call.before, p[1], p[2], FLAGGED))
                 = call.rules[1].flaggedCondition) =>
             /\ \A q \in NeighboursIn(call.before, p[1], p[2], HIDDEN) :
                   call.after.grid[q].state = FLAGGED
             /\ call.changed

\* the rule for the number 2 has flagged the one Hidden neighbour of a
\* Revealed 2 that had one Flagged neighbour
C25_Witness ==
    /\ call.op = "applyRules"
    /\ Len(call.rules) = 1
    /\ call.rules[1].numberCondition = 2
    /\ ~call.before.gameOver
    /\ ~call.before.youWin
    /\ \E p \in Pos :
          /\ call.before.grid[p].state = REVEALED
          /\ call.before.grid[p].neighboringMines = 2
          /\ Cardinality(NeighboursIn(call.before, p[1], p[2], HIDDEN)) = 1
          /\ Cardinality(NeighboursIn(call.before, p[1], p[2], FLAGGED)) = 1
          /\ \A q \in NeighboursIn(call.before, p[1], p[2], HIDDEN) :
                call.after.grid[q].state = FLAGGED
    /\ call.changed


(***************************************************************************)
(* SpecBankStart: step 3 of main and the first evaluation, for every file  *)
(* fixed_games.dat may be at start-up (none, a whole bank, a bank cut       *)
(* off) and for what the file system allows: the file may not open for     *)
(* reading, may not be created, or its writes may fail.                     *)
(***************************************************************************)
BankAccesses == [read : BOOLEAN, write : {"ok", "fails", "short"}]

BankStartFiles ==
    {ABSENT, BankFileOf(fixedGamesGlobal)}
    \cup WrittenFiles(BankFileOf(fixedGamesGlobal), "short")

InitBankStart ==
    /\ call = NoCall
    /\ agent = NoAgent
    /\ human = NoHuman
    /\ bankAccess \in BankAccesses
    /\ game = NewGame
    /\ inits = 0
    /\ ind = <<>>
    /\ fg = PlayGames[1]
    /\ pc = "none"
    /\ changed = FALSE
    /\ actionsTaken = 0
    /\ iterations = 0
    /\ checkpoint = ABSENT
    /\ population = [i \in 1 .. POPULATION_SIZE |->
                        [Individual EXCEPT !.rules =
                            [j \in 1 .. NUM_RULES |-> TrainRule(ACTION_PLACE_FLAG)]]]
    /\ mainPc = "bank"
    /\ generation = 1
    /\ generationWins = 0
    /\ generationGames = 0
    /\ currentFixedGames = <<>>
    /\ futures = <<>>
    /\ sortedPop = <<>>
    /\ newPopulation = <<>>
    /\ genUsers = {}
    /\ lastSaved = <<>>
    /\ bankFile \in BankStartFiles
    /\ bank = <<>>
    /\ generatedGames = <<>>

NextBankStart ==
    \/ MainGenerateFixedGames
    \/ MainLoadFixedGames
    \/ MainStartGeneration
    \/ MainDispatch
    \/ \E i \in DOMAIN futures : TaskRun(i)
    \/ MainJoin

SpecBankStart == InitBankStart /\ [][NextBankStart]_vars

\* C26: while fixed_games.dat exists and opens for reading, no step changes
\* the file or generates scenarios, and once step 3 is over the bank in
\* memory is what the file holds.
C26_ExistingBankLoadedUntouched ==
    /\ [][(bankFile.present /\ bankAccess.read) =>
             (bankFile' = bankFile /\ generatedGames' = generatedGames)]_vars
    /\ []((bankFile.present /\ bankAccess.read /\ mainPc \notin {"bank", "loadBank"}) =>
             BankFileOf(bank) = bankFile)

\* the bank cannot be had: the file does not open for reading, or it was
\* absent and is not there whole after step 3a
BankUnavailable ==
    \/ ~bankAccess.read
    \/ /\ bankAccess.write # "ok"
       /\ (~bankFile.present \/ generatedGames # <<>>)

\* C27: when the bank file is absent and cannot be generated, or cannot be
\* opened for reading, main returns at the end of step 3: no generation
\* starts, no task is dispatched, no game is played, nothing is saved.
C27_AbortWithoutBank ==
    (mainPc # "bank" /\ BankUnavailable) =>
       /\ mainPc \in {"loadBank", "exit"}
       /\ futures = <<>>
       /\ generationGames = 0
       /\ lastSaved = <<>>


(***************************************************************************)
(* SpecAgent: the hardcoded agent (agente_hardcoded/main.cpp) playing on   *)
(* its own board, from every start cell and every placement of the mines   *)
(* startGameAt can draw, with every cell its random reveals can pick.      *)
(***************************************************************************)
AGENT_GRID_WIDTH == 4
AGENT_GRID_HEIGHT == 4
AGENT_NUM_MINES == 3

AgentPos == (0 .. AGENT_GRID_WIDTH - 1) \X (0 .. AGENT_GRID_HEIGHT - 1)

\* row-major index of a cell: the order of "for y, for x" and "for dy, for dx"
AgentIndex(p) == p[2] * AGENT_GRID_WIDTH + p[1]

\* the cells of the board around p, and the 3x3 block of p
AgentBlock(p) ==
    {q \in AgentPos : /\ q[1] >= p[1] - 1 /\ q[1] <= p[1] + 1
                      /\ q[2] >= p[2] - 1 /\ q[2] <= p[2] + 1}
AgentAround(p) == AgentBlock(p) \ {p}

AgentCellsIn(g, S, state) == {q \in S : g.grid[q].state = state}

\* Game::initializeGrid
AgentInitializeGrid ==
    [grid |-> Table([p \in AgentPos |-> Cell], AgentPos), gameOver |-> FALSE,
     youWin |-> FALSE, firstMoveMade |-> FALSE]

\* Game::checkWinCondition
agentCheckWinCondition(g) ==
    IF Cardinality(AgentCellsIn(g, AgentPos, REVEALED))
          = AGENT_GRID_WIDTH * AGENT_GRID_HEIGHT - AGENT_NUM_MINES
    THEN [g EXCEPT !.youWin = TRUE] ELSE g

RECURSIVE AgentFlood(_, _)

\* the cells the recursion of revealCell reveals, S being revealed already:
\* the HIDDEN cells around the cells of S that show 0
AgentFlood(g, S) ==
    LET more == {q \in AgentPos \ S :
                    /\ g.grid[q].state = HIDDEN
                    /\ \E p \in S : /\ q \in AgentAround(p)
                                    /\ ~g.grid[p].isMine
                                    /\ g.grid[p].neighboringMines = 0}
    IN  IF more = {} THEN S ELSE AgentFlood(g, S \cup more)

\* Game::revealCell
agentRevealCell(g, p) ==
    IF p \notin AgentPos \/ g.grid[p].state # HIDDEN THEN g
    ELSE LET S == IF g.grid[p].isMine THEN {p} ELSE AgentFlood(g, {p})
             revealed == Table([q \in AgentPos |->
                                  IF q \in S THEN [g.grid[q] EXCEPT !.state = REVEALED]
                                  ELSE g.grid[q]], AgentPos)
         IN  IF \E q \in S : g.grid[q].isMine
             THEN [g EXCEPT !.grid = revealed, !.gameOver = TRUE]
             ELSE agentCheckWinCondition([g EXCEPT !.grid = revealed])

\* Game::placeFlag
agentPlaceFlag(g, p) ==
    IF p \notin AgentPos \/ g.grid[p].state # HIDDEN THEN g
    ELSE [g EXCEPT !.grid = Table([q \in AgentPos |->
                                     IF q = p THEN [g.grid[q] EXCEPT !.state = FLAGGED]
                                     ELSE g.grid[q]], AgentPos)]

\* the placements of the mines startGameAt can draw for a start cell
AgentMineSets(start) ==
    {m \in SUBSET (AgentPos \ AgentBlock(start)) : Cardinality(m) = AGENT_NUM_MINES}

\* steps 1 and 2 of startGameAt: the grid with the mines placed and the
\* numbers of the cells that are not mines computed
MinesPlaced(g, mines) ==
    Table([p \in AgentPos |->
             [isMine |-> p \in mines \/ g.grid[p].isMine,
              neighboringMines |->
                 IF p \in mines \/ g.grid[p].isMine
                 THEN g.grid[p].neighboringMines
                 ELSE Cardinality({q \in AgentBlock(p) :
                                     q \in mines \/ g.grid[q].isMine}),
              state |-> g.grid[p].state]], AgentPos)

\* Game::startGameAt, for the placement mines
startGameAt(g, start, mines) ==
    IF g.firstMoveMade THEN g
    ELSE agentRevealCell([g EXCEPT !.firstMoveMade = TRUE,
                                   !.grid = MinesPlaced(g, mines)], start)

\* the cells of S in the order of the loops
AgentInOrder(S) ==
    LET idx == SortedSeq({AgentIndex(p) : p \in S})
    IN  [i \in DOMAIN idx |-> CHOOSE p \in S : AgentIndex(p) = idx[i]]

RECURSIVE AgentRevealAll(_, _, _)

\* "for (const auto& cell : hiddenCells) game.revealCell(cell)"
AgentRevealAll(g, cells, i) ==
    IF i > Len(cells) THEN g
    ELSE AgentRevealAll(agentRevealCell(g, cells[i]), cells, i + 1)

RECURSIVE AgentFlagAll(_, _, _)

\* "for (const auto& cell : hiddenCells) game.placeFlag(cell)"
AgentFlagAll(g, cells, i) ==
    IF i > Len(cells) THEN g
    ELSE AgentFlagAll(agentPlaceFlag(g, cells[i]), cells, i + 1)

\* does rule 1 or rule 2 of applyBasicRules act on the cell p
BasicRule1(g, p) ==
    /\ g.grid[p].state = REVEALED
    /\ g.grid[p].neighboringMines # 0
    /\ AgentCellsIn(g, AgentAround(p), HIDDEN) # {}
    /\ g.grid[p].neighboringMines = Cardinality(AgentCellsIn(g, AgentAround(p), FLAGGED))

BasicRule2(g, p) ==
    /\ g.grid[p].state = REVEALED
    /\ g.grid[p].neighboringMines # 0
    /\ AgentCellsIn(g, AgentAround(p), HIDDEN) # {}
    /\ g.grid[p].neighboringMines - Cardinality(AgentCellsIn(g, AgentAround(p), FLAGGED))
          = Cardinality(AgentCellsIn(g, AgentAround(p), HIDDEN))

\* applyBasicRules: the board it leaves and the value it returns
applyBasicRules(g) ==
    LET acting == {p \in AgentPos : BasicRule1(g, p) \/ BasicRule2(g, p)}
    IN  IF acting = {} THEN [game |-> g, taken |-> FALSE]
        ELSE LET p == AgentInOrder(acting)[1]
                 hiddenOnes == AgentInOrder(AgentCellsIn(g, AgentAround(p), HIDDEN))
             IN  [game |-> IF BasicRule1(g, p) THEN AgentRevealAll(g, hiddenOnes, 1)
                           ELSE AgentFlagAll(g, hiddenOnes, 1),
                  taken |-> TRUE]

\* number_cells of solveByBruteForce: the revealed numbers with a HIDDEN
\* neighbour
NumberCells(g) ==
    {p \in AgentPos : /\ g.grid[p].state = REVEALED
                      /\ g.grid[p].neighboringMines > 0
                      /\ AgentCellsIn(g, AgentAround(p), HIDDEN) # {}}

\* frontier of solveByBruteForce, in the order its cells are pushed: by the
\* first number cell that has the cell as a neighbour, then by the cell
Frontier(g) ==
    LET cells == UNION {AgentCellsIn(g, AgentAround(p), HIDDEN) : p \in NumberCells(g)}
        size == AGENT_GRID_WIDTH * AGENT_GRID_HEIGHT
        first(q) == CHOOSE n \in {AgentIndex(p) : p \in {r \in NumberCells(g) : q \in AgentAround(r)}} :
                       \A p \in {r \in NumberCells(g) : q \in AgentAround(r)} : n <= AgentIndex(p)
        key(q) == first(q) * size + AgentIndex(q)
        keys == SortedSeq({key(q) : q \in cells})
    IN  [i \in DOMAIN keys |-> CHOOSE q \in cells : key(q) = keys[i]]

\* isConfigValid for the frontier cells config holds mines on
isConfigValid(g, config) ==
    \A p \in NumberCells(g) :
       Cardinality(AgentCellsIn(g, AgentAround(p), FLAGGED))
          + Cardinality(config \cap AgentCellsIn(g, AgentAround(p), HIDDEN))
             = g.grid[p].neighboringMines

\* valid_solutions after findCombinations: the sets of mines_to_place cells
\* of the frontier that isConfigValid accepts
findCombinations(g, frontierCells, mines_to_place) ==
    {config \in SUBSET frontierCells :
        /\ Cardinality(config) = mines_to_place
        /\ isConfigValid(g, config)}

\* solveByBruteForce: its result, the board it leaves and best_guess_cell
solveByBruteForce(g) ==
    LET frontier == Frontier(g)
        cells == {frontier[i] : i \in DOMAIN frontier}
        mines_remaining == AGENT_NUM_MINES - Cardinality(AgentCellsIn(g, AgentPos, FLAGGED))
        valid_solutions == findCombinations(g, cells, mines_remaining)
        mine_counts == [i \in DOMAIN frontier |->
                           Cardinality({sol \in valid_solutions : frontier[i] \in sol})]
        sure == {i \in DOMAIN frontier :
                    \/ mine_counts[i] = Cardinality(valid_solutions)
                    \/ mine_counts[i] = 0}
        failed == [result |-> "FAILED", game |-> g, best_guess_cell |-> <<-1, -1>>]
    IN  IF Len(frontier) = 0 \/ Len(frontier) > 16 THEN failed
        ELSE IF mines_remaining < 0 THEN failed
        ELSE IF valid_solutions = {} THEN failed
        ELSE IF sure # {}
        THEN LET i == CHOOSE k \in sure : \A j \in sure : k <= j
             IN  [result |-> "GUARANTEED_MOVE_FOUND",
                  game |-> IF mine_counts[i] = Cardinality(valid_solutions)
                           THEN agentPlaceFlag(g, frontier[i])
                           ELSE agentRevealCell(g, frontier[i]),
                  best_guess_cell |-> <<-1, -1>>]
        ELSE LET i == CHOOSE k \in DOMAIN frontier :
                         \A j \in DOMAIN frontier :
                            \/ mine_counts[k] < mine_counts[j]
                            \/ mine_counts[k] = mine_counts[j] /\ k <= j
             IN  [result |-> "NO_GUARANTEED_MOVE", game |-> g,
                  best_guess_cell |-> frontier[i]]

\* Game::revealRandomHidden: the boards it can leave
revealRandomHidden(g) ==
    IF AgentCellsIn(g, AgentPos, HIDDEN) = {} THEN {g}
    ELSE {agentRevealCell(g, p) : p \in AgentCellsIn(g, AgentPos, HIDDEN)}

InitAgent == InitGame

\* the boards startNewGame can leave: initializeGrid, then startGameAt on a
\* start cell drawn, for the mines drawn
AgentStartGames ==
    UNION {{startGameAt(AgentInitializeGrid, start, mines) :
               mines \in AgentMineSets(start)} : start \in AgentPos}

\* startNewGame: at the start of main and when 'R' is pressed, which is
\* followed for the presses that come once a game has ended
AgentStartNewGame ==
    /\ IF agent.move = "off" THEN TRUE
       ELSE agent.game.gameOver \/ agent.game.youWin
    /\ \E g \in AgentStartGames :
          agent' = [game |-> g, autoPlay |-> TRUE, move |-> "start"]
    /\ UNCHANGED <<gameVars, mainVars, call, bankAccess, human>>

\* one turn of the main loop with autoPlay on and the game not over
AgentPlay ==
    /\ agent.move # "off"
    /\ agent.autoPlay
    /\ ~agent.game.gameOver
    /\ ~agent.game.youWin
    /\ LET basic == applyBasicRules(agent.game)
           brute == solveByBruteForce(agent.game)
       IN  IF basic.taken
           THEN agent' = [agent EXCEPT !.game = basic.game, !.move = "basic"]
           ELSE IF brute.result = "GUARANTEED_MOVE_FOUND"
           THEN agent' = [agent EXCEPT !.game = brute.game, !.move = "guaranteed"]
           ELSE IF brute.result = "NO_GUARANTEED_MOVE"
           THEN agent' = [agent EXCEPT
                             !.game = agentRevealCell(agent.game, brute.best_guess_cell),
                             !.move = "guess"]
           ELSE \E g \in revealRandomHidden(agent.game) :
                   agent' = [agent EXCEPT !.game = g, !.move = "random"]
    /\ UNCHANGED <<gameVars, mainVars, call, bankAccess, human>>

NextAgent ==
    \/ AgentStartNewGame
    \/ AgentPlay

SpecAgent == InitAgent /\ [][NextAgent]_vars

\* C28: a move of applyBasicRules or a move solveByBruteForce reports as
\* GUARANTEED_MOVE_FOUND never reveals a mine and never flags a cell that
\* is not a mine: the game is lost only by a guess or a random reveal, and
\* every flag stands on a mine.
C28_GuaranteedMovesSafe ==
    agent.move # "off" =>
       /\ agent.game.gameOver => agent.move \in {"guess", "random"}
       /\ \A p \in AgentPos :
             agent.game.grid[p].state = FLAGGED => agent.game.grid[p].isMine


(***************************************************************************)
(* SpecHuman: the human-playable game (part_000) driven by mouse clicks    *)
(* and the key 'R'.  Its Game has the members of the agent's Game, with    *)
(* the same text but for the flag firstClick, and toggleFlag; it is played *)
(* on a board of the agent's size.  The first click lands on any cell,     *)
(* later clicks on the cells of ClickCells.                                *)
(***************************************************************************)
\* Game::initializeGrid of part_000
HumanInitializeGrid ==
    [grid |-> Table([p \in AgentPos |-> Cell], AgentPos), gameOver |-> FALSE,
     youWin |-> FALSE, firstClick |-> TRUE]

\* the placements of the mines that may fall in the 3x3 block of the click
HumanMineSetsAnywhere(start) ==
    {m \in SUBSET AgentPos : Cardinality(m) = AGENT_NUM_MINES}

\* the placements of NUM_MINES mines the loop of startGameAt can end with
HumanMineSets(start) == AgentMineSets(start)

\* Game::startGameAt of part_000, for the placement mines
humanStartGameAt(g, start, mines) ==
    IF ~g.firstClick THEN g
    ELSE agentRevealCell([g EXCEPT !.firstClick = FALSE,
                                   !.grid = MinesPlaced(g, mines)], start)

\* Game::toggleFlag
toggleFlag(g, p) ==
    IF p \notin AgentPos \/ g.grid[p].state = REVEALED THEN g
    ELSE IF g.firstClick THEN g
    ELSE [g EXCEPT !.grid = Table([q \in AgentPos |->
                                     IF q # p THEN g.grid[q]
                                     ELSE [g.grid[q] EXCEPT !.state =
                                             IF g.grid[q].state = HIDDEN
                                             THEN FLAGGED ELSE HIDDEN]], AgentPos)]

\* the condition without its youWin half: clicks are handled after a win
ClickAcceptedUnlessLost(g) == ~g.gameOver

\* "event.type == SDL_MOUSEBUTTONDOWN && !game.gameOver && !game.youWin"
ClickAccepted(g) == ~g.gameOver /\ ~g.youWin

\* the cells the clicks after the first land on
ClickCells == {<<0, 0>>, <<1, 1>>, <<2, 1>>, <<3, 2>>, <<0, 3>>}

InitHuman == InitGame

\* main up to the event loop: "Game game; game.initializeGrid()"
HumanMain ==
    /\ human = NoHuman
    /\ human' = [game |-> HumanInitializeGrid, event |-> [type |-> "none"]]
    /\ UNCHANGED <<gameVars, mainVars, call, bankAccess, agent>>

\* SDL_MOUSEBUTTONDOWN with SDL_BUTTON_LEFT on the cell p
LeftClick ==
    /\ human # NoHuman
    /\ \E p \in IF human.game.firstClick THEN AgentPos ELSE ClickCells :
          IF ~ClickAccepted(human.game)
          THEN human' = [human EXCEPT !.event = [type |-> "left", cell |-> p]]
          ELSE IF human.game.firstClick
          THEN \E mines \in HumanMineSets(p) :
                  human' = [game |-> humanStartGameAt(human.game, p, mines),
                            event |-> [type |-> "left", cell |-> p]]
          ELSE human' = [game |-> agentRevealCell(human.game, p),
                         event |-> [type |-> "left", cell |-> p]]
    /\ UNCHANGED <<gameVars, mainVars, call, bankAccess, agent>>

\* SDL_MOUSEBUTTONDOWN with SDL_BUTTON_RIGHT on the cell p
RightClick ==
    /\ human # NoHuman
    /\ \E p \in ClickCells :
          human' = [game |-> IF ClickAccepted(human.game)
                             THEN toggleFlag(human.game, p) ELSE human.game,
                    event |-> [type |-> "right", cell |-> p]]
    /\ UNCHANGED <<gameVars, mainVars, call, bankAccess, agent>>

\* SDL_KEYDOWN with SDLK_r
KeyR ==
    /\ human # NoHuman
    /\ human' = [game |-> HumanInitializeGrid, event |-> [type |-> "R"]]
    /\ UNCHANGED <<gameVars, mainVars, call, bankAccess, agent>>

NextHuman ==
    \/ HumanMain
    \/ LeftClick
    \/ RightClick
    \/ KeyR

SpecHuman == InitHuman /\ [][NextHuman]_vars

HumanMines(g) == {p \in AgentPos : g.grid[p].isMine}

\* C29: the first left click places exactly NUM_MINES mines, none of them
\* in the 3x3 block of the cell clicked, and does not lose the game; before
\* it there is no mine, and no click after it changes where the mines are.
C29_FirstClickPlacesMinesSafely ==
    [][human # NoHuman =>
          /\ (human.game.firstClick /\ human'.event.type = "left") =>
                /\ ~human'.game.firstClick
                /\ Cardinality(HumanMines(human'.game)) = AGENT_NUM_MINES
                /\ HumanMines(human'.game) \cap AgentBlock(human'.event.cell) = {}
                /\ ~human'.game.gameOver
          /\ (human.game.firstClick /\ human'.event.type # "left") =>
                HumanMines(human'.game) = {}
          /\ (~human.game.firstClick /\ human'.event.type \in {"left", "right"}) =>
                /\ HumanMines(human'.game) = HumanMines(human.game)
                /\ ~human'.game.firstClick]_vars

\* a first click has just opened the board: its cell is revealed, NUM_MINES
\* mines lie outside its block
C29_Witness ==
    /\ human # NoHuman
    /\ human.event.type = "left"
    /\ ~human.game.firstClick
    /\ ~human.game.gameOver
    /\ human.game.grid[human.event.cell].state = REVEALED
    /\ human.game.grid[human.event.cell].neighboringMines = 0
    /\ Cardinality(HumanMines(human.game)) = AGENT_NUM_MINES
    /\ HumanMines(human.game) \cap AgentBlock(human.event.cell) = {}

\* C30: once gameOver or youWin is true a mouse click leaves the game as it
\* is, and the key 'R', in any state, leaves every cell Hidden and free of
\* mines, gameOver and youWin false and firstClick true.
C30_ClicksIgnoredAfterEndAndRestart ==
    [][human # NoHuman =>
          /\ ((human.game.gameOver \/ human.game.youWin)
                 /\ human'.event.type \in {"left", "right"}) =>
                human'.game = human.game
          /\ human'.event.type = "R" =>
                /\ \A p \in AgentPos :
                      /\ human'.game.grid[p].state = HIDDEN
                      /\ ~human'.game.grid[p].isMine
                /\ ~human'.game.gameOver
                /\ ~human'.game.youWin
                /\ human'.game.firstClick]_vars

\* a right click has been handled in a game that was won, on a cell that
\* holds a mine and is still Hidden
C30_Witness ==
    /\ human # NoHuman
    /\ human.event.type = "right"
    /\ human.game.youWin
    /\ human.game.grid[human.event.cell].isMine
    /\ human.game.grid[human.event.cell].state = HIDDEN


(***************************************************************************)
(* SpecPass: the play loop of evaluateIndividual with applyRules followed  *)
(* call by call.  The variable call holds the locals of the applyRules     *)
(* call in progress: sortedRules, the rule r and the next cell c of the    *)
(* loops, the cells of the current match still to be acted on (cells, i),  *)
(* changed, and the board the call was entered with.                       *)
(***************************************************************************)
\* every call is made, the board lost or won too
ActionAllowedAlways(g) == TRUE

\* "if (!game.gameOver && !game.youWin)" in front of revealCell and placeFlag
ActionAllowed(g) == ~g.gameOver /\ ~g.youWin

\* the cells a rule that fires on (x, y) calls revealCell or placeFlag on
ActionCells(rule, g, x, y) ==
    LET hidden == hiddenCells(g, x, y, rule.extendedScope)
    IN  IF rule.action = ACTION_REVEAL_HIDDEN THEN hidden ELSE <<hidden[1]>>

RECURSIVE NextMatch(_, _, _, _)

\* the loops of applyRules from rule r and cell c on, up to the first cell
\* on which the rule fires: <<r, c>>, or <<Len(sortedRules) + 1, 0>> at the
\* end of the loops (the board does not change on the way)
NextMatch(sortedRules, r, c, g) ==
    IF r > Len(sortedRules) THEN <<r, 0>>
    ELSE IF c = GRID_WIDTH * GRID_HEIGHT THEN NextMatch(sortedRules, r + 1, 0, g)
    ELSE IF RuleFires(sortedRules[r], g, CellAt(c)[1], CellAt(c)[2]) THEN <<r, c>>
    ELSE NextMatch(sortedRules, r, c + 1, g)

\* the rules of the genomes followed call by call: Reveal rules and Flag
\* rules whose conditions allow their action, of either scope
PassRules ==
    {r \in PlayRules :
        /\ ~r.hasSpecificPattern
        /\ r.priority = 1
        /\ IF r.action = ACTION_REVEAL_HIDDEN
           THEN r.flaggedCondition = r.numberCondition
           ELSE r.flaggedCondition = r.numberCondition - 1 /\ r.hiddenCondition = 1}
PassGenomes == [1 .. NUM_RULES -> PassRules] \cup {<<>>}

InitPass == InitPlay

\* evaluateIndividual is entered for a generated scenario
PassInitialize ==
    /\ pc = "call"
    /\ ind' \in PassGenomes
    /\ \E sc \in GeneratedGames :
          /\ fg' = sc
          /\ game' = initializeGridFixed(sc.startX, sc.startY, sc.mineGrid)
    /\ actionsTaken' = 0
    /\ changed' = TRUE
    /\ pc' = "loop"
    /\ UNCHANGED <<inits, iterations, trainVars>>

\* "changed = applyRules(ind, game)": the call is entered, the rules sorted
PassEnter ==
    /\ pc = "loop"
    /\ ~game.gameOver /\ ~game.youWin /\ changed
    /\ \E sortedRules \in SortedByPriority(ind) :
          call' = [op |-> "applyRules", sortedRules |-> sortedRules, r |-> 1,
                   c |-> 0, cells |-> <<>>, i |-> 1, changed |-> FALSE,
                   calls |-> 0, skipped |-> 0, before |-> game, after |-> game]
    /\ pc' = "pass"
    /\ UNCHANGED <<game, inits, ind, fg, changed, actionsTaken, iterations,
                   mainVars, bankAccess, agent, human>>

\* the loops go on to the next cell on which the rule fires
PassScan ==
    /\ pc = "pass"
    /\ call.op = "applyRules"
    /\ call.i > Len(call.cells)
    /\ call.r <= Len(call.sortedRules)
    /\ ~game.gameOver /\ ~game.youWin
    /\ LET m == NextMatch(call.sortedRules, call.r, call.c, game)
       IN  call' = IF m[1] > Len(call.sortedRules)
                   THEN [call EXCEPT !.r = m[1], !.c = 0, !.cells = <<>>, !.i = 1]
                   ELSE [call EXCEPT !.r = m[1], !.c = m[2] + 1, !.i = 1,
                                     !.cells = ActionCells(call.sortedRules[m[1]], game,
                                                           CellAt(m[2])[1], CellAt(m[2])[2])]
    /\ UNCHANGED <<gameVars, mainVars, bankAccess, agent, human>>

\* one turn of the loop over hiddenCells (or the one placeFlag): the call is
\* made and changed set, unless the board is lost or won
PassAct ==
    /\ pc = "pass"
    /\ call.op = "applyRules"
    /\ call.i <= Len(call.cells)
    /\ LET p == CellAt(call.cells[call.i])
       IN  IF ActionAllowed(game)
           THEN /\ game' = IF call.sortedRules[call.r].action = ACTION_REVEAL_HIDDEN
                           THEN revealCell(game, p[1], p[2])
                           ELSE placeFlag(game, p[1], p[2])
                /\ call' = [call EXCEPT !.i = @ + 1, !.changed = TRUE, !.calls = @ + 1]
           ELSE /\ game' = game
                /\ call' = [call EXCEPT !.i = @ + 1, !.skipped = @ + 1]
    /\ UNCHANGED <<inits, playVars, mainVars, bankAccess, agent, human>>

\* applyRules returns changed ("return changed" at the head of a loop, or
\* at the end); the play loop counts the pass as an action if it fired
PassReturn ==
    /\ pc = "pass"
    /\ call.op = "applyRules"
    /\ call.i > Len(call.cells)
    /\ call.r > Len(call.sortedRules) \/ game.gameOver \/ game.youWin
    /\ call' = [call EXCEPT !.op = "returned", !.after = game]
    /\ changed' = call.changed
    /\ actionsTaken' = IF call.changed THEN actionsTaken + 1 ELSE actionsTaken
    /\ IF ~call.changed /\ ~game.gameOver /\ ~game.youWin
       THEN pc' = "random" /\ iterations' = iterations
       ELSE pc' = "loop" /\ iterations' = iterations + 1
    /\ UNCHANGED <<game, inits, ind, fg, mainVars, bankAccess, agent, human>>

\* "revealRandomCell(game); actionsTaken++; changed = true;"
PassRandom ==
    /\ pc = "random"
    /\ game' \in revealRandomCell(game)
    /\ actionsTaken' = actionsTaken + 1
    /\ changed' = TRUE
    /\ iterations' = iterations + 1
    /\ pc' = "loop"
    /\ UNCHANGED <<inits, ind, fg, trainVars>>

\* the loop condition fails
PassExit ==
    /\ pc = "loop"
    /\ ~(~game.gameOver /\ ~game.youWin /\ changed)
    /\ pc' = "score"
    /\ UNCHANGED <<game, inits, ind, fg, changed, actionsTaken, iterations, trainVars>>

NextPass ==
    \/ PassInitialize
    \/ PassEnter
    \/ PassScan
    \/ PassAct
    \/ PassReturn
    \/ PassRandom
    \/ PassExit

SpecPass == InitPass /\ [][NextPass]_vars


\* C32: when applyRules has returned, the value it returned is true exactly
\* when it made at least one revealCell or placeFlag call; if it is true the
\* board has strictly fewer Hidden cells than when the call was entered, if
\* it is false the board is the one the call was entered with.
C32_ChangedIffActed ==
    call.op = "returned" =>
       /\ call.changed <=> call.calls >= 1
       /\ call.changed =>
             CountState(call.after, HIDDEN) < CountState(call.before, HIDDEN)
       /\ ~call.changed => call.after = call.before

\* a pass has returned true after three calls or more, which left flags
\* and newly revealed cells on the board
C32_Witness ==
    /\ call.op = "returned"
    /\ call.changed
    /\ call.calls >= 3
    /\ CountState(call.after, FLAGGED) > CountState(call.before, FLAGGED)
    /\ CountState(call.after, REVEALED) > CountState(call.before, REVEALED)

\* C33: in evaluateIndividual no step changes the board once gameOver or
\* youWin is true (the calls that applyRules still has in its loops are not
\* made); at most one mine is Revealed, gameOver and youWin are not both
\* true, and a board that is won has exactly the cells revealed that made it
\* won (the flood fill revealed nothing after youWin was set).
C33_NoActionOnTerminalBoard ==
    /\ [][(game.gameOver \/ game.youWin) => game' = game]_vars
    /\ [](Cardinality(MinesRevealed(game)) <= 1)
    /\ [](~(game.gameOver /\ game.youWin))
    /\ [](game.youWin =>
            CountState(game, REVEALED) = (GRID_WIDTH * GRID_HEIGHT) - NUM_MINES)

\* applyRules has revealed a mine in its loop over hiddenCells and has left
\* out the call on the cell that followed, which is still Hidden
C33_Witness ==
    /\ call.op = "applyRules"
    /\ game.gameOver
    /\ call.skipped >= 1
    /\ call.i > Len(call.cells)
    /\ game.grid[CellAt(call.cells[Len(call.cells)])].state = HIDDEN


(***************************************************************************)
(* The members of Game called in any order (SpecGame): what a call may do  *)
(* to the state of a cell.                                                 *)
(***************************************************************************)
\* the Revealed cells of a board that are no mine and have no mine around
RevealedZeros(g) ==
    {p \in Pos : /\ g.grid[p].state = REVEALED
                 /\ ~g.grid[p].isMine
                 /\ g.grid[p].neighboringMines = 0}

\* C34: between two calls of initializeGridFixed a call changes the state
\* of a cell only if the cell was Hidden: a Revealed cell stays Revealed and
\* a Flagged cell stays Flagged, whatever revealCell floods.
C34_StateLeavesHiddenOnly ==
    [][inits' = inits =>
          \A p \in Pos :
             game'.grid[p].state # game.grid[p].state => game.grid[p].state = HIDDEN]_vars

\* a flag stands next to a Revealed cell with no mine around: it was placed
\* before the flood fill of that cell, which went round it
C34_Witness ==
    /\ inits >= 1
    /\ \E p \in RevealedZeros(game) :
          \E q \in Adjacent(p) : game.grid[q].state = FLAGGED

\* C36: after every call on an initialised board, no neighbour of a
\* Revealed cell that is no mine and has neighboringMines = 0 is Hidden;
\* and a call that reveals a mine reveals that one cell only (the mine is the
\* cell of the call, the flood fill reveals none).
C36_FloodFillComplete ==
    /\ [](inits >= 1 =>
            \A p \in RevealedZeros(game) :
               \A q \in Adjacent(p) : game.grid[q].state # HIDDEN)
    /\ [][(inits' = inits /\ MinesRevealed(game') # MinesRevealed(game)) =>
            CountState(game', REVEALED) = CountState(game, REVEALED) + 1]_vars

\* a flood fill has gone two cells deep: two Revealed cells with no mine
\* around lie next to each other, on a board with Hidden mines left
C36_Witness ==
    /\ inits >= 1
    /\ ~game.gameOver
    /\ \E p \in RevealedZeros(game) : Adjacent(p) \cap RevealedZeros(game) # {}
    /\ \E q \in Pos : game.grid[q].isMine /\ game.grid[q].state = HIDDEN


(***************************************************************************)
(* SpecMembers: revealCell and placeFlag called with any arguments on the  *)
(* board of a generated scenario; call keeps the arguments and the board   *)
(* the member was called on.                                               *)
(***************************************************************************)
InitMembers == InitGame

MemberRevealCell ==
    /\ inits >= 1
    /\ \E p \in CallPoints :
          /\ game' = revealCell(game, p[1], p[2])
          /\ call' = [op |-> "revealCell", x |-> p[1], y |-> p[2], before |-> game]
    /\ UNCHANGED <<inits, playVars, mainVars, bankAccess, agent, human>>

MemberPlaceFlag ==
    /\ inits >= 1
    /\ \E p \in CallPoints :
          /\ game' = placeFlag(game, p[1], p[2])
          /\ call' = [op |-> "placeFlag", x |-> p[1], y |-> p[2], before |-> game]
    /\ UNCHANGED <<inits, playVars, mainVars, bankAccess, agent, human>>

NextMembers ==
    \/ CallInitializeGridFixedGenerated
    \/ MemberRevealCell
    \/ MemberPlaceFlag

SpecMembers == InitMembers /\ [][NextMembers]_vars

\* the call was made on a cell of the board that was Hidden
OnHiddenCell(cl) ==
    /\ InBounds(cl.x, cl.y)
    /\ cl.before.grid[<<cl.x, cl.y>>].state = HIDDEN

\* C35: a revealCell or placeFlag call with coordinates off the board, or on
\* a cell that is not Hidden, leaves the Game as it was; a placeFlag call on
\* a Hidden cell leaves the Game as it was but for the state of that cell,
\* which is Flagged.
C35_NoOpCallsAndFlagFrame ==
    call.op \in {"revealCell", "placeFlag"} =>
       /\ ~OnHiddenCell(call) => game = call.before
       /\ (call.op = "placeFlag" /\ OnHiddenCell(call)) =>
             /\ game.gameOver = call.before.gameOver
             /\ game.youWin = call.before.youWin
             /\ game.grid[<<call.x, call.y>>] =
                   [call.before.grid[<<call.x, call.y>>] EXCEPT !.state = FLAGGED]
             /\ \A p \in Pos \ {<<call.x, call.y>>} :
                   game.grid[p] = call.before.grid[p]

\* revealCell has been called on a Flagged cell that is no mine, next to a
\* Revealed cell, on a board that is neither lost nor won
C35_Witness ==
    /\ call.op = "revealCell"
    /\ InBounds(call.x, call.y)
    /\ call.before.grid[<<call.x, call.y>>].state = FLAGGED
    /\ ~call.before.grid[<<call.x, call.y>>].isMine
    /\ ~game.gameOver /\ ~game.youWin
    /\ \E q \in Adjacent(<<call.x, call.y>>) : game.grid[q].state = REVEALED


(***************************************************************************)
(* The flags and the count of actions of a game that evaluateIndividual    *)
(* plays (SpecPlay).                                                       *)
(***************************************************************************)
\* C37: in a game of evaluateIndividual on a generated scenario, whatever
\* the genome, every Flagged cell is a mine: the number of Flagged cells is
\* correctFlags, and no cell that is not a mine is kept from being revealed
\* by a flag.
C37_FlagsOnlyOnMines ==
    /\ \A p \in Pos : game.grid[p].state = FLAGGED => game.grid[p].isMine
    /\ Cardinality(MinesFlagged(game)) = CountState(game, FLAGGED)

\* a game has ended won with every mine flagged by the rules, one of them
\* by a rule of scope 2
C37_Witness ==
    /\ pc = "score"
    /\ game.youWin
    /\ CountState(game, FLAGGED) = NUM_MINES
    /\ \E i \in DOMAIN ind :
          ind[i].action = ACTION_PLACE_FLAG /\ ind[i].extendedScope = 2
    /\ \A i \in DOMAIN ind : ind[i].action = ACTION_PLACE_FLAG


\* the Hidden cells of the board of a scenario after its opening move
HiddenAfterOpening(sc) ==
    CountState(PlayBoard[CHOOSE i \in DOMAIN PlayGames : PlayGames[i] = sc], HIDDEN)

\* C40: every iteration of the play loop adds exactly one to actionsTaken,
\* whether a pass of the rules fired (on one cell or many) or a random cell
\* was revealed; so in a game actionsTaken is the number of iterations run,
\* and it is at most the number of cells Hidden after the opening move.
C40_ActionsAreIterations ==
    /\ [][iterations' # iterations => actionsTaken' = actionsTaken + 1]_vars
    /\ [][iterations' = iterations => (pc = "call" \/ actionsTaken' = actionsTaken)]_vars
    /\ [](pc # "call" => actionsTaken = iterations)
    /\ [](pc # "call" => actionsTaken <= HiddenAfterOpening(fg))

\* a game has ended after two iterations or more in which more cells were
\* revealed or flagged than iterations were run
C40_Witness ==
    /\ pc = "score"
    /\ actionsTaken >= 2
    /\ actionsTaken = iterations
    /\ CountState(game, FLAGGED) >= 1
    /\ HiddenAfterOpening(fg) - CountState(game, HIDDEN) > actionsTaken

=============================================================================
